---------------------------- MODULE Spec2Model ----------------------------
(***************************************************************************)
(* Startup-prioritization dashboard: the startup record store              *)
(* (GET/POST /api/startups with rank recalculation) and the legal-diligence *)
(* document registry (POST/GET/DELETE /api/legal-documents).               *)
(*                                                                         *)
(* Each awaited call on the persistence engine is one atomic step; a       *)
(* handler with a single mutating call is one action.  The single-create   *)
(* handler makes three awaited calls (create, the rank UPDATE, count) and  *)
(* is three steps, so concurrent requests interleave between them.         *)
(***************************************************************************)
EXTENDS Integers, Sequences, FiniteSets, TLC

VARIABLES
    startups,   \* the "Startup" table: a set of rows, each a function key -> value
    nextGen,    \* number of identities the persistence engine has generated
    pc,         \* pc[r]: position of single-create request r in POST
    status,     \* status[r]: HTTP status returned to request r (0: none yet)
    bulkSince,  \* a bulk create ran after the latest rank recalculation
    call,       \* the latest create call on the engine: the request body, the
                \* data handed to the store, the count reported for a bulk create
    shortlist,  \* the "UserShortlist" table: a set of [userId, startupId]
    list,       \* the latest GET /api/startups: its parameters, the query it
                \* issued and its response
    legal,      \* legal[id]: the legalDiligence column of startup id
    reg,        \* reg[h]: position and locals of legal-documents request h
    resp,       \* resp[h]: the latest response to legal-documents request h
    issues,     \* the "ThresholdIssue" table: the records in creation order
    issueReq,   \* the threshold-issue request in progress: position, session, body
    issueResp,  \* the latest response of POST /api/threshold-issues
    today,      \* the date (UTC) the server clock shows
    suggestedMapping,   \* ColumnMapper prop: the heuristic baseline mapping
    mapping,            \* ColumnMapper state: the canonical ColumnMapping
    editableMappings,   \* ColumnMapper state: one editable entry per CSV header
    aiSuggestions,      \* ColumnMapper state: the latest analysis response
    aiError,            \* ColumnMapper state: the error of the latest analysis
    isAnalyzing,        \* ColumnMapper state: an analysis is in flight
    pending,            \* the csv-analyze fetches that have not settled yet
    confirmed,          \* the arguments of the onConfirm call, once made
    sessionStorage,     \* the scroll entries of sessionStorage, by key
    now,                \* Date.now(), in milliseconds
    got,                \* got[key]: what the latest read of key's position returned
    scrollY             \* window.scrollY

storeVars == <<startups, nextGen, pc, status, bulkSince, call>>

listVars == <<shortlist, list>>

docVars == <<legal, reg, resp>>

issueVars == <<issues, issueReq, issueResp, today>>

mapperVars ==
    <<suggestedMapping, mapping, editableMappings, aiSuggestions, aiError, isAnalyzing,
      pending, confirmed>>

scrollVars == <<sessionStorage, now, got, scrollY>>

otherVars == <<issueVars, mapperVars, scrollVars>>

vars == <<storeVars, listVars, docVars, otherVars>>

\* what POST /api/startups leaves alone
postFrame == <<listVars, docVars, otherVars>>

(***************************************************************************)
(* Bounds                                                                  *)
(***************************************************************************)
MaxRows == 3        \* rows the table may hold under Spec
MaxBulk == 2        \* records in one bulk array

Requests == {1, 2}  \* concurrent single-create requests under Spec

ClientIds == {<<"client", 1>>, <<"client", 2>>}   \* identities a payload may carry
GenId(n) == <<"generated", n>>                    \* the n-th identity the engine generates
Names == {1, 2}             \* names, ordered as the collation orders them
Scores == {1, 2}

(***************************************************************************)
(* sanitizeStartupData                                                     *)
(***************************************************************************)
validFields ==
    { "id", "name", "sector", "stage", "country", "description", "team",
      "metrics", "score", "rank", "feedback", "pipelineStage", "aiScores",
      "rationale", "detailedMetrics", "companyInfo", "marketInfo",
      "productInfo", "businessModelInfo", "salesInfo", "teamInfo",
      "competitiveInfo", "riskInfo", "opportunityInfo", "initialAssessment",
      "investmentScorecard", "documents", "userId", "customData",
      "customSchema" }

\* A key that is absent from the payload reads as undefined.
SanitizeKeepsAll(data) == data

sanitizeStartupData(data) ==
    [key \in {k \in validFields : k \in DOMAIN data} |-> data[key]]

(***************************************************************************)
(* Payloads.  A payload is a function from its keys to values; "name" and  *)
(* "score" are always given, "id" and "rank" may be absent, and            *)
(* "legalDiligence" and "investmentMemo" are keys outside the allow-list.  *)
(***************************************************************************)
Merge(f, g) ==
    [k \in (DOMAIN f) \cup (DOMAIN g) |-> IF k \in DOMAIN g THEN g[k] ELSE f[k]]

Empty == [k \in {} |-> 0]

SeqsUpTo(S, n) == UNION {[1..m -> S] : m \in 0..n}

IdParts == {Empty} \cup {[id |-> i] : i \in ClientIds}

RankParts == {Empty, [rank |-> 1]}

ExtraParts == {Empty, [legalDiligence |-> 1]}

\* Payloads that vary name and score (rank order, ties)
RankPayloads ==
    { Merge([name |-> n, score |-> s], i) :
        n \in Names, s \in Scores, i \in {Empty, [id |-> <<"client", 1>>]} }

\* Arrays a bulk create submits under Spec
RankArrays ==
    SeqsUpTo({[name |-> 2, score |-> 2, rank |-> 1], [name |-> 1, score |-> 1]}, MaxBulk)

\* Payloads that vary identity, rank and the keys outside the allow-list
KeyPayloads ==
    { Merge(Merge(Merge([name |-> 1, score |-> 1], i), r), e) :
        i \in IdParts, r \in RankParts, e \in ExtraParts }

(***************************************************************************)
(* The persistence engine                                                  *)
(***************************************************************************)
Ids(rows) == {s.id : s \in rows}

HasId(d) == "id" \in DOMAIN d

\* prisma.startup.createMany({ data, skipDuplicates: true }):
\* INSERT ... ON CONFLICT DO NOTHING, row by row in one statement.
RECURSIVE CreateManyFrom(_, _, _)
CreateManyFrom(data, i, acc) ==
    IF i > Len(data) THEN acc
    ELSE LET d == data[i] IN
         IF HasId(d) /\ d.id \in Ids(acc.rows)
         THEN CreateManyFrom(data, i + 1, acc)
         ELSE LET row == IF HasId(d) THEN d
                         ELSE Merge(d, [id |-> GenId(acc.gen + 1)])
              IN CreateManyFrom(data, i + 1,
                     [rows  |-> acc.rows \cup {row},
                      gen   |-> IF HasId(d) THEN acc.gen ELSE acc.gen + 1,
                      count |-> acc.count + 1])

CreateManyNoSkip(rows, gen, data) ==
    [rows  |-> rows \cup {IF HasId(data[i]) THEN data[i]
                          ELSE Merge(data[i], [id |-> GenId(gen + i)]) :
                          i \in 1..Len(data)},
     gen   |-> gen + Len(data),
     count |-> Len(data)]

createMany(rows, gen, data) ==
    CreateManyFrom(data, 1, [rows |-> rows, gen |-> gen, count |-> 0])

(***************************************************************************)
(* recalculateRanks: ROW_NUMBER() OVER (ORDER BY score DESC, name ASC)     *)
(***************************************************************************)
OrderedBeforeNoTieBreak(a, b) == a.score > b.score

\* a sorts strictly before b
OrderedBefore(a, b) ==
    \/ a.score > b.score
    \/ a.score = b.score /\ a.name < b.name

\* The row numberings the window function may produce: rows that tie on
\* (score, name) are numbered in either order.
RowNumberings(rows) ==
    { f \in [Ids(rows) -> 1..Cardinality(rows)] :
        /\ \A i, j \in Ids(rows) : i # j => f[i] # f[j]
        /\ \A a, b \in rows : OrderedBefore(a, b) => f[a.id] < f[b.id] }

SetRank(s, r) == Merge(s, [rank |-> r])

(***************************************************************************)
(* POST /api/startups                                                      *)
(***************************************************************************)
NoCall == [kind |-> "none", raw |-> <<>>, data |-> <<>>, count |-> 0, retry |-> FALSE]

\* Single insert: sanitize, prisma.startup.create.  A payload whose id is
\* already stored violates the primary key: create throws and the catch
\* block answers 500 without recalculating.
SingleCreate(r, body) ==
    LET data == sanitizeStartupData(body)
        row  == IF HasId(data) THEN data ELSE Merge(data, [id |-> GenId(nextGen + 1)])
    IN /\ pc[r] = "idle"
       /\ call' = [kind |-> "single", raw |-> <<body>>, data |-> <<data>>,
                   count |-> 0, retry |-> FALSE]
       /\ IF HasId(data) /\ data.id \in Ids(startups)
          THEN /\ pc' = [pc EXCEPT ![r] = "done"]
               /\ status' = [status EXCEPT ![r] = 500]
               /\ UNCHANGED <<startups, nextGen>>
          ELSE /\ startups' = startups \cup {row}
               /\ nextGen' = IF HasId(data) THEN nextGen ELSE nextGen + 1
               /\ pc' = [pc EXCEPT ![r] = "created"]
               /\ UNCHANGED status
       /\ UNCHANGED <<bulkSince, postFrame>>

RecalculateNewRowOnly(r) ==
    /\ pc[r] = "created"
    /\ \E f \in RowNumberings(startups) :
          startups' = {IF "rank" \in DOMAIN s THEN s ELSE SetRank(s, f[s.id]) : s \in startups}
    /\ bulkSince' = FALSE
    /\ pc' = [pc EXCEPT ![r] = "ranked"]
    /\ UNCHANGED <<nextGen, status, call, postFrame>>

\* await recalculateRanks(): the single UPDATE statement
recalculateRanks ==
    \E f \in RowNumberings(startups) :
        startups' = {SetRank(s, f[s.id]) : s \in startups}

SingleRecalculate(r) ==
    /\ pc[r] = "created"
    /\ recalculateRanks
    /\ bulkSince' = FALSE
    /\ pc' = [pc EXCEPT ![r] = "ranked"]
    /\ UNCHANGED <<nextGen, status, call, postFrame>>

\* prisma.startup.count() inside recalculateRanks, then the 201 response
SingleRespond(r) ==
    /\ pc[r] = "ranked"
    /\ pc' = [pc EXCEPT ![r] = "done"]
    /\ status' = [status EXCEPT ![r] = 201]
    /\ UNCHANGED <<startups, nextGen, bulkSince, call, postFrame>>

\* Bulk insert: sanitize each record, createMany with skipDuplicates, 201
\* with the count; no rank recalculation.
BulkCreate(body) ==
    LET sanitizedData == [i \in 1..Len(body) |-> sanitizeStartupData(body[i])]
        res == createMany(startups, nextGen, sanitizedData)
    IN /\ startups' = res.rows
       /\ nextGen' = res.gen
       /\ call' = [kind  |-> "bulk", raw |-> body, data |-> sanitizedData,
                   count |-> res.count,
                   retry |-> call.kind = "bulk" /\ body = call.raw]
       /\ bulkSince' = TRUE
       /\ UNCHANGED <<pc, status, postFrame>>

NoList == [called |-> FALSE]

NullLD == [null |-> TRUE]

\* no legal-documents request and an empty registry
ScrollKeys == {"dashboard", "portfolio"}

NotRead == [read |-> FALSE]

\* nothing saved, nothing read
ScrollIdle ==
    /\ sessionStorage = <<>>
    /\ now = 0
    /\ got = [key \in ScrollKeys |-> NotRead]
    /\ scrollY = 0

\* no threshold issue stored, no request answered
IssuesIdle ==
    /\ issues = <<>>
    /\ issueReq = [pc |-> "idle"]
    /\ issueResp = [status |-> 0]
    /\ today = "2026-01-01"

NoSuggestions == [null |-> TRUE]

NoError == [null |-> TRUE]

NotConfirmed == [called |-> FALSE]

\* no ColumnMapper mounted
MapperIdle ==
    /\ suggestedMapping = Empty
    /\ mapping = Empty
    /\ editableMappings = <<>>
    /\ aiSuggestions = NoSuggestions
    /\ aiError = NoError
    /\ isAnalyzing = FALSE
    /\ pending = 0
    /\ confirmed = NotConfirmed

DocsIdle ==
    /\ legal = [id \in {"s1"} |-> NullLD]
    /\ reg = [h \in {1} |-> [pc |-> "idle"]]
    /\ resp = [h \in {1} |-> [status |-> 0]]

(***************************************************************************)
(* Spec: concurrent single creates and bulk creates from the empty table,  *)
(* over payloads that vary name and score.                                 *)
(***************************************************************************)
Init ==
    /\ startups = {}
    /\ nextGen = 0
    /\ pc = [r \in Requests |-> "idle"]
    /\ status = [r \in Requests |-> 0]
    /\ bulkSince = FALSE
    /\ call = NoCall
    /\ shortlist = {}
    /\ list = NoList
    /\ ScrollIdle
    /\ IssuesIdle
    /\ MapperIdle
    /\ DocsIdle

Room(n) == Cardinality(startups) + n <= MaxRows

Next ==
    \/ \E r \in DOMAIN pc, body \in RankPayloads : Room(1) /\ SingleCreate(r, body)
    \/ \E r \in DOMAIN pc : SingleRecalculate(r)
    \/ \E r \in DOMAIN pc : SingleRespond(r)
    \/ \E body \in RankArrays : Room(Len(body)) /\ BulkCreate(body)

Spec == Init /\ [][Next]_vars

(***************************************************************************)
(* SpecKeys: one create request, and the retry of a bulk create, against   *)
(* a table that earlier imports left behind, over payloads that vary       *)
(* identity, rank and the keys outside the allow-list.                     *)
(***************************************************************************)
StoredRows(i) ==
    { Merge([id |-> i, name |-> 1, score |-> 1], r) :
        r \in {Empty, [rank |-> 1], [rank |-> 2]} }

\* Tables with one row per identity at most
Tables ==
    { t \in SUBSET (UNION {StoredRows(i) : i \in ClientIds}) :
        \A a, b \in t : a.id = b.id => a = b }

InitKeys ==
    /\ startups \in Tables
    /\ nextGen = 0
    /\ pc = [r \in {1} |-> "idle"]
    /\ status = [r \in {1} |-> 0]
    /\ bulkSince = FALSE
    /\ call = NoCall
    /\ shortlist = {}
    /\ list = NoList
    /\ ScrollIdle
    /\ IssuesIdle
    /\ MapperIdle
    /\ DocsIdle

NextKeys ==
    \/ \E r \in DOMAIN pc, body \in KeyPayloads :
          call.kind = "none" /\ SingleCreate(r, body)
    \/ \E r \in DOMAIN pc : SingleRecalculate(r)
    \/ \E r \in DOMAIN pc : SingleRespond(r)
    \/ \E body \in SeqsUpTo(KeyPayloads, MaxBulk) :
          call.kind = "none" /\ BulkCreate(body)
    \/ call.kind = "bulk" /\ ~call.retry /\ BulkCreate(call.raw)

SpecKeys == InitKeys /\ [][NextKeys]_vars

(***************************************************************************)
(* Claims about the startup record store                                   *)
(***************************************************************************)
RecalculateStep == \E r \in DOMAIN pc : pc[r] = "created" /\ pc'[r] = "ranked"

BulkStep == call'.kind = "bulk" /\ pc' = pc

\* ranks are exactly 1..N, each used once, in (score desc, name asc) order
RankedByScoreThenName(rows) ==
    /\ \A s \in rows : "rank" \in DOMAIN s
    /\ {s.rank : s \in rows} = 1..Cardinality(rows)
    /\ \A a, b \in rows :
          (\/ a.score > b.score
           \/ a.score = b.score /\ a.name < b.name) => a.rank < b.rank

\* C1: after any execution of recalculateRanks the ranks are exactly 1..N,
\* each used once, and a record with a higher score, or the same score and
\* a smaller name, has the smaller rank.
C1_RanksAfterRecalculation ==
    [][RecalculateStep => RankedByScoreThenName(startups')]_vars

\* three ranked rows: two tie on score and differ in name, one scores lower
C1_Witness ==
    /\ \E r \in DOMAIN pc : pc[r] = "ranked"
    /\ ~bulkSince
    /\ Cardinality(startups) = 3
    /\ \E a, b, c \in startups :
          a.score = b.score /\ a.name < b.name /\ c.score < a.score

AllReturned201 ==
    /\ \A r \in DOMAIN pc : pc[r] = "idle" \/ (pc[r] = "done" /\ status[r] = 201)
    /\ \E r \in DOMAIN pc : pc[r] = "done"

\* C2: whenever every started single-create request has returned 201 and
\* no bulk create ran after the latest recalculation, the ranks of all
\* records are a permutation of 1..N in (score desc, name asc) order.
C2_RanksAfterSingleCreates ==
    (AllReturned201 /\ ~bulkSince) => RankedByScoreThenName(startups)

\* both requests returned 201 and an earlier bulk create added a third row
C2_Witness ==
    /\ \A r \in DOMAIN pc : pc[r] = "done" /\ status[r] = 201
    /\ Cardinality(DOMAIN pc) = 2
    /\ ~bulkSince
    /\ call.kind = "bulk"
    /\ Cardinality(startups) = 3

Existing(body, rows) == {i \in 1..Len(body) : HasId(body[i]) /\ body[i].id \in Ids(rows)}

DistinctIds(body) ==
    \A i, j \in 1..Len(body) :
        (i # j /\ HasId(body[i]) /\ HasId(body[j])) => body[i].id # body[j].id

InsertsAllButExisting ==
    LET N == Len(call'.raw)
        M == Cardinality(Existing(call'.raw, startups))
    IN /\ call'.count = N - M
       /\ Cardinality(startups') = Cardinality(startups) + N - M

\* C3 as stated: a bulk create of N records, M of which exist by identity,
\* inserts N - M records, reports count = N - M and leaves every stored
\* record (its rank included) as it was.
C3_Original ==
    [][BulkStep => (InsertsAllButExisting /\ startups \subseteq startups')]_vars

\* C3 as amended: the same, for an array whose supplied identities are
\* pairwise distinct.
C3_BulkCreateCount ==
    [][BulkStep =>
        /\ DistinctIds(call'.raw) => InsertsAllButExisting
        /\ startups \subseteq startups']_vars

\* a bulk create of two records, one already stored, over a ranked row
C3_Witness ==
    /\ call.kind = "bulk" /\ ~call.retry
    /\ Len(call.raw) = 2 /\ DistinctIds(call.raw)
    /\ call.count = 1
    /\ \E i \in 1..2 : HasId(call.raw[i]) /\ "rank" \in DOMAIN call.raw[i]
          /\ \E s \in startups : s.id = call.raw[i].id /\ "rank" \in DOMAIN s
                                    /\ s.rank # call.raw[i].rank

AllHaveId(body) == \A i \in 1..Len(body) : HasId(body[i])

RetryStep == BulkStep /\ call.kind = "bulk" /\ call'.raw = call.raw

\* C4 as stated: submitting the same array a second time inserts nothing,
\* reports count = 0 and leaves the stored startups as they were.
C4_Original ==
    [][RetryStep => (call'.count = 0 /\ startups' = startups)]_vars

\* C4 as amended: the same, for an array in which every record carries an
\* identity.
C4_BulkRetryIdempotent ==
    [][(RetryStep /\ AllHaveId(call'.raw)) =>
        (call'.count = 0 /\ startups' = startups)]_vars

\* the retry of an array of two records with identities reported count 0
C4_Witness ==
    /\ call.kind = "bulk" /\ call.retry
    /\ Len(call.raw) = 2 /\ AllHaveId(call.raw)
    /\ call.raw[1].id # call.raw[2].id
    /\ call.count = 0

\* C5: the data handed to the store for every create payload holds only
\* allow-listed keys, and every allow-listed key the payload defines is
\* kept with its value; a key outside the allow-list is no error.
C5_AllowListOnly ==
    /\ Len(call.data) = Len(call.raw)
    /\ \A i \in 1..Len(call.raw) :
          /\ DOMAIN call.data[i] \subseteq validFields
          /\ \A k \in (DOMAIN call.raw[i]) \cap validFields :
                k \in DOMAIN call.data[i] /\ call.data[i][k] = call.raw[i][k]
    /\ \A s \in startups : DOMAIN s \subseteq validFields
    /\ \A r \in DOMAIN pc :
          status[r] = 500 => (call.kind = "single" => HasId(call.raw[1]))

\* a single create whose payload carried a key outside the allow-list and
\* a rank returned 201
C5_Witness ==
    /\ call.kind = "single"
    /\ "legalDiligence" \in DOMAIN call.raw[1]
    /\ "rank" \in DOMAIN call.raw[1]
    /\ \E r \in DOMAIN pc : status[r] = 201

(***************************************************************************)
(* GET /api/startups                                                       *)
(*                                                                         *)
(* A request's search parameters are a function from the supplied keys to  *)
(* their values; searchParams.get of an absent key is null.  Numeric       *)
(* parameters and the search text are sequences of characters, sector and  *)
(* pipelineStage are strings.                                              *)
(***************************************************************************)
DefaultPage == 1
DefaultLimit == 50
MaxLimit == 10000

Digits == <<"0", "1", "2", "3", "4", "5", "6", "7", "8", "9">>

IsDigit(c) == \E d \in 1..10 : Digits[d] = c

DigitValue(c) == (CHOOSE d \in 1..10 : Digits[d] = c) - 1

NaN == [nan |-> TRUE, val |-> 0]

\* the value of the digits of s from position i on, up to the first
\* character that is no digit
RECURSIVE DigitsFrom(_, _, _)
DigitsFrom(s, i, acc) ==
    IF i > Len(s) \/ ~IsDigit(s[i]) THEN acc
    ELSE DigitsFrom(s, i + 1, 10 * acc + DigitValue(s[i]))

\* Number.parseInt(s): an optional sign, then the longest prefix of
\* decimal digits; NaN when there is none.
parseInt(s) ==
    LET signed == Len(s) > 0 /\ s[1] \in {"-", "+"}
        first  == IF signed THEN 2 ELSE 1
    IN IF first > Len(s) \/ ~IsDigit(s[first]) THEN NaN
       ELSE [nan |-> FALSE,
             val |-> IF signed /\ s[1] = "-"
                     THEN 0 - DigitsFrom(s, first, 0)
                     ELSE DigitsFrom(s, first, 0)]

\* Number.parseFloat(s) on a text without fraction or exponent
parseFloat(s) == parseInt(s)

\* searchParams.get(k) || fallback
GetOr(q, k, fallback) == IF k \in DOMAIN q /\ q[k] # <<>> THEN q[k] ELSE fallback

PageOf(q) ==
    LET parsedPage == parseInt(GetOr(q, "page", <<"1">>))
    IN IF parsedPage.nan \/ parsedPage.val < 1 THEN DefaultPage ELSE parsedPage.val

Min(a, b) == IF a < b THEN a ELSE b

LimitNoClamp(q) ==
    LET parsedLimit == parseInt(GetOr(q, "limit", <<"5", "0">>))
    IN IF parsedLimit.nan \/ parsedLimit.val < 1 THEN DefaultLimit ELSE parsedLimit.val

LimitOf(q) ==
    LET parsedLimit == parseInt(GetOr(q, "limit", <<"5", "0">>))
    IN IF parsedLimit.nan \/ parsedLimit.val < 1 THEN DefaultLimit
       ELSE Min(parsedLimit.val, MaxLimit)

\* minScore / maxScore: undefined (here: NaN) when absent, empty or not a number
ScoreParam(q, k) ==
    IF k \in DOMAIN q /\ q[k] # <<>> THEN parseFloat(q[k]) ELSE NaN

\* a string parameter that is given and not empty
Truthy(q, k) == k \in DOMAIN q /\ q[k] # ""

\* a text parameter that is given and not empty
TruthyText(q, k) == k \in DOMAIN q /\ q[k] # <<>>

ScoreRange(q) ==
    LET minScore == ScoreParam(q, "minScore")
        maxScore == ScoreParam(q, "maxScore")
    IN Merge(IF minScore.nan THEN Empty ELSE [gte |-> minScore.val],
             IF maxScore.nan THEN Empty ELSE [lte |-> maxScore.val])

\* the where clause
WhereOf(q) ==
    Merge(Merge(Merge(
        IF Truthy(q, "sector") THEN [sector |-> q.sector] ELSE Empty,
        IF Truthy(q, "pipelineStage") THEN [pipelineStage |-> q.pipelineStage] ELSE Empty),
        IF TruthyText(q, "search") THEN [OR |-> q.search] ELSE Empty),
        IF ScoreRange(q) = Empty THEN Empty ELSE [score |-> ScoreRange(q)])

ToLower(c) == CASE c = "A" -> "a" [] c = "B" -> "b" [] OTHER -> c

Lower(s) == [i \in 1..Len(s) |-> ToLower(s[i])]

IsInfix(t, s) ==
    \E i \in 0..(Len(s) - Len(t)) : \A j \in 1..Len(t) : s[i + j] = t[j]

ContainsSensitive(row, k, t) == k \in DOMAIN row /\ IsInfix(t, row[k])

\* { contains: t, mode: "insensitive" } on column k; a null column matches nothing
ContainsInsensitive(row, k, t) == k \in DOMAIN row /\ IsInfix(Lower(t), Lower(row[k]))

Matches(row, where) ==
    /\ "sector" \in DOMAIN where =>
          ("sector" \in DOMAIN row /\ row.sector = where.sector)
    /\ "pipelineStage" \in DOMAIN where =>
          ("pipelineStage" \in DOMAIN row /\ row.pipelineStage = where.pipelineStage)
    /\ "OR" \in DOMAIN where =>
          \/ ContainsInsensitive(row, "name", where.OR)
          \/ ContainsInsensitive(row, "description", where.OR)
    /\ "score" \in DOMAIN where =>
          /\ "gte" \in DOMAIN where.score => row.score >= where.score.gte
          /\ "lte" \in DOMAIN where.score => row.score <= where.score.lte

selectFields ==
    { "id", "name", "sector", "stage", "country", "description", "score", "rank",
      "pipelineStage", "aiScores", "companyInfo", "marketInfo" }

Select(row) == [k \in (DOMAIN row) \cap selectFields |-> row[k]]

\* orderBy: { rank: "asc" }: rows without a rank sort last, equal ranks in any order
RankAscending(a, b) ==
    \/ "rank" \notin DOMAIN b
    \/ "rank" \in DOMAIN a /\ a.rank <= b.rank

Orderings(rows) ==
    { o \in [1..Cardinality(rows) -> rows] :
        /\ \A i, j \in DOMAIN o : i # j => o[i] # o[j]
        /\ \A i, j \in DOMAIN o : i < j => RankAscending(o[i], o[j]) }

\* findMany({ where, orderBy, skip, take, select }) over one ordering
FindMany(ordering, skip, take) ==
    LET n == Len(ordering) IN
    [i \in 1..(IF skip >= n THEN 0 ELSE Min(take, n - skip)) |-> Select(ordering[skip + i])]

\* Math.ceil(total / limit)
Ceil(total, limit) == (total + limit - 1) \div limit

NoUser == "anonymous"

WithShortlistOfAnyUser(page, userId) ==
    LET shortlistedSet == { e.startupId : e \in shortlist }
    IN [i \in DOMAIN page |->
          Merge(page[i],
                [shortlisted |-> IF userId # NoUser /\ Len(page) > 0
                                 THEN page[i].id \in shortlistedSet
                                 ELSE FALSE])]

\* the shortlisted flag of each record of the page
WithShortlist(page, userId) ==
    LET shortlistedSet ==
            { e.startupId : e \in { x \in shortlist :
                /\ x.userId = userId
                /\ \E i \in DOMAIN page : page[i].id = x.startupId } }
    IN [i \in DOMAIN page |->
          Merge(page[i],
                [shortlisted |-> IF userId # NoUser /\ Len(page) > 0
                                 THEN page[i].id \in shortlistedSet
                                 ELSE FALSE])]

List(q, userId) ==
    LET page  == PageOf(q)
        limit == LimitOf(q)
        skip  == (page - 1) * limit
        where == WhereOf(q)
        found == {row \in startups : Matches(row, where)}
        total == Cardinality(found)
    IN \E ordering \in Orderings(found) :
         /\ list' = [called |-> TRUE, q |-> q, userId |-> userId,
                     where |-> where, skip |-> skip, take |-> limit,
                     status |-> 200,
                     startups |-> WithShortlist(FindMany(ordering, skip, limit), userId),
                     pagination |-> [page |-> page, limit |-> limit, total |-> total,
                                     totalPages |-> Ceil(total, limit)]]
         /\ UNCHANGED <<storeVars, shortlist, docVars, otherVars>>

(***************************************************************************)
(* SpecList, SpecFilter: one list request against a table that imports and *)
(* recalculations left behind; SpecList varies page and limit, SpecFilter  *)
(* the filters.                                                            *)
(***************************************************************************)
ListRows ==
    { [id |-> <<"client", 1>>, name |-> <<"A", "b">>, description |-> <<"b">>,
       sector |-> "fin", pipelineStage |-> "new", score |-> 2, rank |-> 1,
       documents |-> 1],
      [id |-> <<"client", 2>>, name |-> <<"b">>,
       sector |-> "fin", pipelineStage |-> "won", score |-> 1, rank |-> 2],
      [id |-> <<"generated", 1>>, name |-> <<"a">>, description |-> <<"A", "B">>,
       sector |-> "bio", pipelineStage |-> "new", score |-> 3, rank |-> 2],
      [id |-> <<"generated", 2>>, name |-> <<"b", "a">>, description |-> <<"a">>,
       sector |-> "bio", pipelineStage |-> "won", score |-> 2] }

Users == {NoUser, "u1"}

Shortlists ==
    { {}, {[userId |-> "u1", startupId |-> <<"client", 1>>],
           [userId |-> "u2", startupId |-> <<"client", 2>>]} }

Opt(k, values) == {Empty} \cup {[x \in {k} |-> v] : v \in values}

IntTexts ==
    { <<>>, <<"x">>, <<"0">>, <<"-", "1">>, <<"1">>, <<"2">>, <<"3">>, <<"2", "x">>,
      <<"1", "0", "0", "0", "0">>, <<"1", "0", "0", "0", "1">> }

PageQueries ==
    { Merge(Merge(a, b), c) :
        a \in Opt("page", IntTexts), b \in Opt("limit", IntTexts),
        c \in Opt("sector", {"fin"}) }

FilterQueries ==
    { Merge(Merge(Merge(Merge(Merge(Merge(a, b), c), d), e), f), g) :
        a \in Opt("page", {<<"2">>}),
        b \in Opt("limit", {<<"1">>, <<"2">>}),
        c \in Opt("sector", {"", "fin"}),
        d \in Opt("pipelineStage", {"new"}),
        e \in Opt("search", {<<>>, <<"a">>, <<"A", "B">>}),
        f \in Opt("minScore", {<<"x">>, <<"2">>}),
        g \in Opt("maxScore", {<<>>, <<"2">>}) }

InitList ==
    /\ startups \in SUBSET ListRows
    /\ nextGen = 0
    /\ pc = [r \in {1} |-> "idle"]
    /\ status = [r \in {1} |-> 0]
    /\ bulkSince = FALSE
    /\ call = NoCall
    /\ shortlist \in Shortlists
    /\ list = NoList
    /\ ScrollIdle
    /\ IssuesIdle
    /\ MapperIdle
    /\ DocsIdle

NextList == \E q \in PageQueries, userId \in Users : ~list.called /\ List(q, userId)

SpecList == InitList /\ [][NextList]_vars

NextFilter == \E q \in FilterQueries, userId \in Users : ~list.called /\ List(q, userId)

SpecFilter == InitList /\ [][NextFilter]_vars


(***************************************************************************)
(* Claims about the list operation                                         *)
(***************************************************************************)
Given(q, k) == k \in DOMAIN q /\ q[k] # <<>>

\* the parameter holds an integer of at least 1
ValidCount(q, k) == Given(q, k) /\ ~parseInt(q[k]).nan /\ parseInt(q[k]).val >= 1

\* C6: a valid page and limit are used as given, with the limit clamped to
\* 10000; a page or limit that is absent, not a number or less than 1 falls
\* back to 1 and 50; skip = (page - 1) * limit, at most limit records are
\* returned and the request succeeds.
C6_Pagination ==
    list.called =>
        LET q     == list.q
            page  == list.pagination.page
            limit == list.pagination.limit
        IN /\ ValidCount(q, "page") => page = parseInt(q.page).val
           /\ ~ValidCount(q, "page") => page = 1
           /\ ValidCount(q, "limit") =>
                 /\ parseInt(q.limit).val <= 10000 => limit = parseInt(q.limit).val
                 /\ parseInt(q.limit).val > 10000 => limit = 10000
           /\ ~ValidCount(q, "limit") => limit = 50
           /\ list.skip = (page - 1) * limit
           /\ list.take = limit
           /\ Len(list.startups) <= limit
           /\ list.status = 200

\* page 2 of a four-row table at limit 1: one record, one skipped
C6_Witness ==
    /\ list.called
    /\ Given(list.q, "page") /\ list.q.page = <<"2">>
    /\ Given(list.q, "limit") /\ list.q.limit = <<"1">>
    /\ list.skip = 1
    /\ Len(list.startups) = 1
    /\ list.pagination.total = 4

InfixAnyCase(t, s) ==
    \E i \in 0..(Len(s) - Len(t)) : \A j \in 1..Len(t) : ToLower(s[i + j]) = ToLower(t[j])

SuppliedNumber(q, k) == Given(q, k) /\ ~parseFloat(q[k]).nan

\* row s satisfies every filter that query q supplies
Satisfies(s, q) ==
    /\ ("sector" \in DOMAIN q /\ q.sector # "") =>
          ("sector" \in DOMAIN s /\ s.sector = q.sector)
    /\ ("pipelineStage" \in DOMAIN q /\ q.pipelineStage # "") =>
          ("pipelineStage" \in DOMAIN s /\ s.pipelineStage = q.pipelineStage)
    /\ Given(q, "search") =>
          \/ "name" \in DOMAIN s /\ InfixAnyCase(q.search, s.name)
          \/ "description" \in DOMAIN s /\ InfixAnyCase(q.search, s.description)
    /\ SuppliedNumber(q, "minScore") => s.score >= parseFloat(q.minScore).val
    /\ SuppliedNumber(q, "maxScore") => s.score <= parseFloat(q.maxScore).val

\* C7: every returned record satisfies all supplied filters, total is the
\* number of stored records that satisfy them, and totalPages is
\* ceil(total / limit).
C7_Filters ==
    list.called =>
        LET q == list.q
            p == list.pagination
        IN /\ \A i \in DOMAIN list.startups :
                \E s \in startups : s.id = list.startups[i].id /\ Satisfies(s, q)
           /\ p.total = Cardinality({s \in startups : Satisfies(s, q)})
           /\ p.totalPages * p.limit >= p.total
           /\ (p.totalPages - 1) * p.limit < p.total

\* sector, search and both score bounds supplied: one of four rows
\* qualifies and is returned
C7_Witness ==
    /\ list.called
    /\ Cardinality(startups) = 4
    /\ DOMAIN list.q = {"limit", "sector", "search", "minScore", "maxScore"}
    /\ list.q.sector = "fin" /\ list.q.search = <<"A", "B">>
    /\ list.q.minScore = <<"2">> /\ list.q.maxScore = <<"2">>
    /\ list.q.limit = <<"1">>
    /\ list.pagination.total = 1
    /\ Len(list.startups) = 1

(***************************************************************************)
(* Legal-diligence document registry: POST and DELETE /api/legal-documents *)
(*                                                                         *)
(* legalDiligence is null (NullLD) or an object, a function from its keys  *)
(* to values.  uploadedDocuments maps a category to Arr(list of documents) *)
(* or, in the legacy shape, to Obj(document); analysisResults maps a       *)
(* category to its result.  Each handler reads the column (findUnique),    *)
(* then writes the whole column back (update): two steps.  uploadedAt is   *)
(* left out of a document.                                                 *)
(***************************************************************************)
MaxDocs == 2        \* documents in one category's list

DocIds == {"d1", "d2"}      \* ids `doc-${Date.now()}-${random}` may yield

Categories == {"c1", "c2"}

Arr(items) == [array |-> TRUE, items |-> items]

Obj(doc) == [array |-> FALSE, doc |-> doc]

Without(f, k) == [x \in (DOMAIN f) \ {k} |-> f[x]]

\* (startup.legalDiligence as any) || {}
DataOf(ld) == IF ld = NullLD THEN Empty ELSE ld

\* currentData.uploadedDocuments || {}
DocsOf(data) ==
    IF "uploadedDocuments" \in DOMAIN data THEN data.uploadedDocuments ELSE Empty

\* currentData.analysisResults || {}
AnalysisOf(data) ==
    IF "analysisResults" \in DOMAIN data THEN data.analysisResults ELSE Empty

CategoryDocsDropLegacy(currentDocs, category) ==
    IF category \notin DOMAIN currentDocs THEN <<>>
    ELSE IF currentDocs[category].array THEN currentDocs[category].items
    ELSE <<>>

\* Array.isArray(docs) ? docs : docs ? [docs] : []
CategoryDocs(currentDocs, category) ==
    IF category \notin DOMAIN currentDocs THEN <<>>
    ELSE IF currentDocs[category].array THEN currentDocs[category].items
    ELSE <<currentDocs[category].doc>>

IsSpace(c) == c \in {" ", "\n", "\t"}

\* extractedText.split(/\s+/).length: one more than the number of maximal
\* runs of whitespace
WordCount(text) ==
    1 + Cardinality({i \in 1..Len(text) :
                        IsSpace(text[i]) /\ (i = 1 \/ ~IsSpace(text[i - 1]))})

NewDocument(id, file, extractedText) ==
    [id |-> id, fileName |-> file.name, fileType |-> file.type,
     text |-> extractedText,
     characterCount |-> Len(extractedText),
     wordCount |-> WordCount(extractedText)]

FailureBadRequest(code, message) == [status |-> 400, error |-> message]

Failure(code, message) == [status |-> code, error |-> message]

\* POST up to findUnique: the form fields, then the startup
UploadRead(h, form) ==
    /\ reg[h].pc = "idle"
    /\ IF form.startupId = "" \/ form.category = ""
       THEN /\ resp' = [resp EXCEPT ![h] = Failure(400, "Missing required fields")]
            /\ UNCHANGED reg
       ELSE IF "file" \notin DOMAIN form
       THEN /\ resp' = [resp EXCEPT ![h] = Failure(400, "No file provided")]
            /\ UNCHANGED reg
       ELSE IF form.startupId \notin DOMAIN legal
       THEN /\ resp' = [resp EXCEPT ![h] = Failure(404, "Startup not found")]
            /\ UNCHANGED reg
       ELSE /\ reg' = [reg EXCEPT ![h] =
                          [pc |-> "read", op |-> "upload",
                           startupId |-> form.startupId, category |-> form.category,
                           file |-> form.file, startup |-> legal[form.startupId]]]
            /\ resp' = [resp EXCEPT ![h] = [status |-> 0]]
    /\ UNCHANGED <<legal, storeVars, listVars, otherVars>>

UploadedLegalDiligenceReplacing(currentData, category, newDocument) ==
    Merge(currentData,
          [uploadedDocuments |->
              Merge(DocsOf(currentData), [c \in {category} |-> Arr(<<newDocument>>)])])

\* updatedLegalDiligence: the category's list with the new document pushed
UploadedLegalDiligence(currentData, category, newDocument) ==
    LET currentDocs  == DocsOf(currentData)
        categoryDocs == Append(CategoryDocs(currentDocs, category), newDocument)
    IN Merge(currentData,
             [uploadedDocuments |->
                 Merge(currentDocs, [c \in {category} |-> Arr(categoryDocs)])])

\* POST after findUnique: text extraction by declared type, the new
\* document (with the id the clock and the random suffix give), the update
\* and the response.  file.parses: pdf-parse returns the text.
UploadWrite(h, id) ==
    LET r    == reg[h]
        file == r.file
        done == [reg EXCEPT ![h] = [pc |-> "idle"]]
    IN /\ r.pc = "read" /\ r.op = "upload"
       /\ reg' = done
       /\ IF file.type = "application/pdf" /\ ~file.parses
          THEN /\ resp' = [resp EXCEPT ![h] = Failure(500, "Failed to parse PDF")]
               /\ UNCHANGED legal
          ELSE IF file.type =
                    "application/vnd.openxmlformats-officedocument.wordprocessingml.document"
          THEN /\ resp' = [resp EXCEPT ![h] =
                    Failure(400, "Please convert Word documents to PDF for text extraction")]
               /\ UNCHANGED legal
          ELSE IF file.type \notin {"application/pdf", "text/plain"}
          THEN /\ resp' = [resp EXCEPT ![h] =
                    Failure(400, "Unsupported file type. Please upload PDF or TXT files.")]
               /\ UNCHANGED legal
          ELSE IF file.content = <<>>
          THEN /\ resp' = [resp EXCEPT ![h] =
                    Failure(400, "Could not extract text from the document")]
               /\ UNCHANGED legal
          ELSE LET newDocument == NewDocument(id, file, file.content)
                   updated == UploadedLegalDiligence(DataOf(r.startup), r.category, newDocument)
               IN /\ legal' = [legal EXCEPT ![r.startupId] = updated]
                  /\ resp' = [resp EXCEPT ![h] =
                        [status |-> 200,
                         message |-> "Document uploaded successfully",
                         document |-> [id |-> newDocument.id,
                                       fileName |-> newDocument.fileName,
                                       characterCount |-> newDocument.characterCount,
                                       wordCount |-> newDocument.wordCount],
                         category |-> r.category,
                         totalDocuments |->
                             Len(CategoryDocs(DocsOf(updated), r.category))]]
       /\ UNCHANGED <<storeVars, listVars, otherVars>>

\* DELETE up to findUnique
DeleteRead(h, params) ==
    /\ reg[h].pc = "idle"
    /\ IF params.startupId = "" \/ params.category = ""
       THEN /\ resp' = [resp EXCEPT ![h] = Failure(400, "Missing required fields")]
            /\ UNCHANGED reg
       ELSE IF params.startupId \notin DOMAIN legal
       THEN /\ resp' = [resp EXCEPT ![h] = Failure(404, "Startup not found")]
            /\ UNCHANGED reg
       ELSE /\ reg' = [reg EXCEPT ![h] =
                          Merge([pc |-> "read", op |-> "delete",
                                 startupId |-> params.startupId,
                                 category |-> params.category,
                                 startup |-> legal[params.startupId]],
                                IF "documentId" \in DOMAIN params /\ params.documentId # ""
                                THEN [documentId |-> params.documentId] ELSE Empty)]
            /\ resp' = [resp EXCEPT ![h] = [status |-> 0]]
    /\ UNCHANGED <<legal, storeVars, listVars, otherVars>>

DeletedDocsKeepsEmpty(currentDocs, category, r) ==
    IF "documentId" \in DOMAIN r
    THEN LET Kept(doc) == doc.id # r.documentId
         IN Merge(currentDocs,
                  [c \in {category} |->
                      Arr(SelectSeq(CategoryDocs(currentDocs, category), Kept))])
    ELSE Without(currentDocs, category)

\* currentDocs after the delete: the list filtered by document id (the key
\* removed when nothing is left), or the key removed
DeletedDocs(currentDocs, category, r) ==
    IF "documentId" \in DOMAIN r
    THEN LET Kept(doc) == doc.id # r.documentId
             filteredDocs == SelectSeq(CategoryDocs(currentDocs, category), Kept)
         IN IF Len(filteredDocs) = 0
            THEN Without(currentDocs, category)
            ELSE Merge(currentDocs, [c \in {category} |-> Arr(filteredDocs)])
    ELSE Without(currentDocs, category)

\* DELETE after findUnique: the documents, the analysis results, the update
DeleteWrite(h) ==
    LET r == reg[h]
        currentData == DataOf(r.startup)
        updated ==
            Merge(currentData,
                  [uploadedDocuments |-> DeletedDocs(DocsOf(currentData), r.category, r),
                   analysisResults |-> Without(AnalysisOf(currentData), r.category)])
    IN /\ r.pc = "read" /\ r.op = "delete"
       /\ reg' = [reg EXCEPT ![h] = [pc |-> "idle"]]
       /\ legal' = [legal EXCEPT ![r.startupId] = updated]
       /\ resp' = [resp EXCEPT ![h] =
                      [status |-> 200, message |-> "Document deleted successfully"]]
       /\ UNCHANGED <<storeVars, listVars, otherVars>>

(***************************************************************************)
(* SpecDocs: upload and delete requests, one at a time, on the registry of *)
(* startup "s1" as earlier requests (and the legacy format) left it.       *)
(***************************************************************************)
Doc(id) ==
    [id |-> id, fileName |-> "f.txt", fileType |-> "text/plain", text |-> <<"a">>,
     characterCount |-> 1, wordCount |-> 1]

Registries ==
    { NullLD,
      Empty,
      [uploadedDocuments |-> [c \in {"c1"} |-> Obj(Doc("d1"))],
       analysisResults |-> [c \in {"c1"} |-> 1]],
      [uploadedDocuments |-> [c \in Categories |-> Arr(<<Doc("d1")>>)],
       analysisResults |-> [c \in Categories |-> 1],
       summary |-> 1],
      [uploadedDocuments |-> [c \in {"c2"} |-> Arr(<<Doc("d1"), Doc("d2")>>)],
       analysisResults |-> [c \in {"c1"} |-> 1]] }

File(name, type, content, parses) ==
    [name |-> name, type |-> type, content |-> content, parses |-> parses]

Files ==
    { File("f.txt", "text/plain", <<"a">>, TRUE),
      File("f.txt", "text/plain", <<>>, TRUE),
      File("f.pdf", "application/pdf", <<"a">>, FALSE),
      File("f.docx",
           "application/vnd.openxmlformats-officedocument.wordprocessingml.document",
           <<"a">>, TRUE),
      File("f.png", "image/png", <<"a">>, TRUE) }

Forms ==
    { Merge([startupId |-> s, category |-> c], f) :
        s \in {"", "s1", "s2"}, c \in {""} \cup Categories,
        f \in {Empty} \cup {[file |-> x] : x \in Files} }

DeleteParams ==
    { Merge([startupId |-> s, category |-> c], d) :
        s \in {"", "s1", "s2"}, c \in {""} \cup Categories,
        d \in {Empty} \cup {[documentId |-> x] : x \in DocIds \cup {"", "d3"}} }

InitDocs ==
    /\ startups = {}
    /\ nextGen = 0
    /\ pc = [r \in {1} |-> "idle"]
    /\ status = [r \in {1} |-> 0]
    /\ bulkSince = FALSE
    /\ call = NoCall
    /\ shortlist = {}
    /\ list = NoList
    /\ ScrollIdle
    /\ IssuesIdle
    /\ MapperIdle
    /\ legal \in [{"s1"} -> Registries]
    /\ reg = [h \in {1} |-> [pc |-> "idle"]]
    /\ resp = [h \in {1} |-> [status |-> 0]]

\* the list an upload would extend has room
HasRoom(form) ==
    form.startupId \in DOMAIN legal =>
        Len(CategoryDocs(DocsOf(DataOf(legal[form.startupId])), form.category)) < MaxDocs

NextDocs ==
    \/ \E h \in DOMAIN reg, form \in Forms : HasRoom(form) /\ UploadRead(h, form)
    \/ \E h \in DOMAIN reg, id \in DocIds : UploadWrite(h, id)
    \/ \E h \in DOMAIN reg, params \in DeleteParams : DeleteRead(h, params)
    \/ \E h \in DOMAIN reg : DeleteWrite(h)

SpecDocs == InitDocs /\ [][NextDocs]_vars

(***************************************************************************)
(* Claims about the document registry                                      *)
(***************************************************************************)
\* request h's upload / delete completes with the success response
UploadDone(h) == reg[h].pc = "read" /\ reg[h].op = "upload" /\ resp'[h].status = 200

DeleteDone(h) == reg[h].pc = "read" /\ reg[h].op = "delete" /\ resp'[h].status = 200

\* the stored uploadedDocuments object of a legalDiligence value
StoredDocs(ld) ==
    IF ld = NullLD \/ "uploadedDocuments" \notin DOMAIN ld THEN Empty
    ELSE ld.uploadedDocuments

\* a category's documents as a list: empty when the category or the
\* registry is absent, one element for the legacy single document
StoredList(ld, category) ==
    LET docs == StoredDocs(ld) IN
    IF category \notin DOMAIN docs THEN <<>>
    ELSE IF docs[category].array THEN docs[category].items
    ELSE <<docs[category].doc>>

HasAnalysis(ld, category) ==
    /\ ld # NullLD
    /\ "analysisResults" \in DOMAIN ld
    /\ category \in DOMAIN ld.analysisResults

\* C8: after a successful upload, delete-by-id or delete-category the
\* startup's analysisResults has no entry for the category.
C8_AnalysisInvalidated ==
    [][\A h \in DOMAIN reg :
          (UploadDone(h) \/ DeleteDone(h)) =>
              ~HasAnalysis(legal'[reg[h].startupId], reg[h].category)]_vars

\* C9: a successful upload leaves the category's list equal to the list
\* before it followed by the new document, and answers totalDocuments =
\* the previous length plus one.
C9_UploadAppends ==
    [][\A h \in DOMAIN reg :
          UploadDone(h) =>
              LET category == reg[h].category
                  before   == StoredList(legal[reg[h].startupId], category)
                  docs     == StoredDocs(legal'[reg[h].startupId])
              IN /\ category \in DOMAIN docs
                 /\ docs[category].array
                 /\ Len(docs[category].items) = Len(before) + 1
                 /\ SubSeq(docs[category].items, 1, Len(before)) = before
                 /\ docs[category].items[Len(before) + 1].id = resp'[h].document.id
                 /\ resp'[h].totalDocuments = Len(before) + 1]_vars

\* an upload answered totalDocuments = 2: the list holds the earlier
\* document, then the new one with another id
C9_Witness ==
    \E h \in DOMAIN reg :
        /\ resp[h].status = 200
        /\ "totalDocuments" \in DOMAIN resp[h]
        /\ resp[h].totalDocuments = 2
        /\ LET items == StoredList(legal["s1"], resp[h].category)
           IN /\ Len(items) = 2
              /\ items[2].id = resp[h].document.id
              /\ items[1].id # items[2].id

\* C10: delete by document id leaves the category's documents with other
\* ids, in their order, and removes the category key when none is left;
\* delete without a document id removes the category key; the other
\* categories keep their documents.
C10_DeleteFilters ==
    [][\A h \in DOMAIN reg :
          DeleteDone(h) =>
              LET category == reg[h].category
                  old      == legal[reg[h].startupId]
                  docs     == StoredDocs(legal'[reg[h].startupId])
                  Other(doc) == doc.id # reg[h].documentId
                  kept     == IF "documentId" \in DOMAIN reg[h]
                              THEN SelectSeq(StoredList(old, category), Other)
                              ELSE <<>>
              IN /\ IF kept = <<>>
                    THEN category \notin DOMAIN docs
                    ELSE category \in DOMAIN docs /\ docs[category] = Arr(kept)
                 /\ \A c \in (DOMAIN StoredDocs(old) \cup DOMAIN docs) \ {category} :
                       /\ c \in DOMAIN StoredDocs(old)
                       /\ c \in DOMAIN docs
                       /\ docs[c] = StoredDocs(old)[c]]_vars

\* a delete succeeded and left one category with the single document d2
\* beside another category's documents
C10_Witness ==
    \E h \in DOMAIN reg :
        /\ resp[h].status = 200
        /\ resp[h].message = "Document deleted successfully"
        /\ StoredList(legal["s1"], "c2") = <<Doc("d2")>>
        /\ StoredList(legal["s1"], "c1") # <<>>

\* every category's documents as a list, and the stored analysis results
DocLists(ld) == [c \in DOMAIN StoredDocs(ld) |-> StoredList(ld, c)]

StoredAnalysis(ld) ==
    IF ld = NullLD \/ "analysisResults" \notin DOMAIN ld THEN Empty
    ELSE ld.analysisResults

\* the delete names a document id that no document of the category has
UnknownId(h) ==
    /\ "documentId" \in DOMAIN reg[h]
    /\ \A i \in DOMAIN StoredList(legal[reg[h].startupId], reg[h].category) :
          StoredList(legal[reg[h].startupId], reg[h].category)[i].id # reg[h].documentId

\* C11: a delete by a document id that the category does not hold answers
\* success and leaves the startup's documents and analysis results as they
\* were.
C11_DeleteUnknownIdNoOp ==
    [][\A h \in DOMAIN reg :
          (reg[h].pc = "read" /\ reg[h].op = "delete" /\ UnknownId(h)) =>
              /\ resp'[h].status = 200
              /\ DocLists(legal'[reg[h].startupId]) = DocLists(legal[reg[h].startupId])
              /\ StoredAnalysis(legal'[reg[h].startupId]) =
                     StoredAnalysis(legal[reg[h].startupId])]_vars

(***************************************************************************)
(* SpecText: one text/plain upload to an empty registry, over texts of     *)
(* letters and whitespace.                                                 *)
(***************************************************************************)
MaxText == 4        \* characters of an uploaded text

HelloWorld == <<"h", "e", "l", "l", "o", " ", "w", "o", "r", "l", "d">>

Texts == SeqsUpTo({"a", " ", "\n"}, MaxText) \cup {HelloWorld}

TextForms ==
    { [startupId |-> "s1", category |-> c,
       file |-> File("f.txt", "text/plain", t, TRUE)] :
        c \in Categories, t \in Texts }

InitText ==
    /\ startups = {}
    /\ nextGen = 0
    /\ pc = [r \in {1} |-> "idle"]
    /\ status = [r \in {1} |-> 0]
    /\ bulkSince = FALSE
    /\ call = NoCall
    /\ shortlist = {}
    /\ list = NoList
    /\ ScrollIdle
    /\ IssuesIdle
    /\ MapperIdle
    /\ DocsIdle

NextText ==
    \/ \E form \in TextForms : legal["s1"] = NullLD /\ UploadRead(1, form)
    \/ UploadWrite(1, "d1")

SpecText == InitText /\ [][NextText]_vars

\* the whitespace-delimited tokens of a text: the positions where a run of
\* characters other than whitespace begins
Tokens(text) ==
    Cardinality({i \in 1..Len(text) :
                    ~IsSpace(text[i]) /\ (i = 1 \/ IsSpace(text[i - 1]))})

\* C12: every uploaded document's characterCount is the length of its text
\* and its wordCount the number of whitespace-delimited tokens of the text,
\* in the stored document and in the response.
C12_CountsMatchText ==
    \A c \in DOMAIN StoredDocs(legal["s1"]) :
        \A i \in DOMAIN StoredList(legal["s1"], c) :
            LET doc == StoredList(legal["s1"], c)[i]
            IN /\ doc.characterCount = Len(doc.text)
               /\ doc.wordCount = Tokens(doc.text)
               /\ resp[1].status = 200 =>
                     /\ resp[1].document.characterCount = Len(doc.text)
                     /\ resp[1].document.wordCount = Tokens(doc.text)

(***************************************************************************)
(* GET /api/legal-documents, and SpecLegacy: uploads, deletes and reads on *)
(* registries that hold a category in the legacy single-document shape.    *)
(***************************************************************************)
\* normalizedDocs: every stored category as a list
NormalizedDocs(uploadedDocuments) ==
    [cat \in DOMAIN uploadedDocuments |-> CategoryDocs(uploadedDocuments, cat)]

\* GET: one read, then the answer; query is the request that resp answers
GetDocuments(h, params) ==
    /\ reg[h].pc = "idle"
    /\ IF params.startupId = ""
       THEN resp' = [resp EXCEPT ![h] = Failure(400, "Missing startupId")]
       ELSE IF params.startupId \notin DOMAIN legal
       THEN resp' = [resp EXCEPT ![h] = Failure(404, "Startup not found")]
       ELSE LET uploadedDocuments == DocsOf(DataOf(legal[params.startupId]))
            IN resp' = [resp EXCEPT ![h] =
                   [status |-> 200, query |-> params,
                    documents |->
                        IF "category" \in DOMAIN params /\ params.category # ""
                        THEN CategoryDocs(uploadedDocuments, params.category)
                        ELSE NormalizedDocs(uploadedDocuments)]]
    /\ UNCHANGED <<legal, reg, storeVars, listVars, otherVars>>

GetParams ==
    { Merge([startupId |-> s], c) :
        s \in {"", "s1", "s2"},
        c \in {Empty} \cup {[category |-> x] : x \in {""} \cup Categories} }

LegacyRegistries ==
    { [uploadedDocuments |-> [c \in {"c1"} |-> Obj(Doc("d1"))],
       analysisResults |-> [c \in {"c1"} |-> 1]],
      [uploadedDocuments |-> [c \in Categories |-> Obj(Doc("d2"))]],
      [uploadedDocuments |->
          [c \in Categories |-> IF c = "c1" THEN Obj(Doc("d1"))
                                ELSE Arr(<<Doc("d1"), Doc("d2")>>)]] }

InitLegacy ==
    /\ startups = {}
    /\ nextGen = 0
    /\ pc = [r \in {1} |-> "idle"]
    /\ status = [r \in {1} |-> 0]
    /\ bulkSince = FALSE
    /\ call = NoCall
    /\ shortlist = {}
    /\ list = NoList
    /\ ScrollIdle
    /\ IssuesIdle
    /\ MapperIdle
    /\ legal \in [{"s1"} -> LegacyRegistries]
    /\ reg = [h \in {1} |-> [pc |-> "idle"]]
    /\ resp = [h \in {1} |-> [status |-> 0]]

NextLegacy ==
    \/ \E h \in DOMAIN reg, form \in Forms : HasRoom(form) /\ UploadRead(h, form)
    \/ \E h \in DOMAIN reg, id \in DocIds : UploadWrite(h, id)
    \/ \E h \in DOMAIN reg, params \in DeleteParams : DeleteRead(h, params)
    \/ \E h \in DOMAIN reg : DeleteWrite(h)
    \/ \E h \in DOMAIN reg, params \in GetParams : GetDocuments(h, params)

SpecLegacy == InitLegacy /\ [][NextLegacy]_vars

IsLegacy(ld, category) ==
    category \in DOMAIN StoredDocs(ld) /\ ~StoredDocs(ld)[category].array

\* the answer of a read gives lists: the category's list, or every stored
\* category mapped to its list, a legacy document as a one-element list
ReadGivesLists(h) ==
    (resp[h].status = 200 /\ "documents" \in DOMAIN resp[h]) =>
        LET ld == legal[resp[h].query.startupId]
            q  == resp[h].query
        IN IF "category" \in DOMAIN q /\ q.category # ""
           THEN resp[h].documents =
                    IF IsLegacy(ld, q.category)
                    THEN <<StoredDocs(ld)[q.category].doc>>
                    ELSE StoredList(ld, q.category)
           ELSE /\ DOMAIN resp[h].documents = DOMAIN StoredDocs(ld)
                /\ \A c \in DOMAIN StoredDocs(ld) :
                      resp[h].documents[c] =
                          IF IsLegacy(ld, c) THEN <<StoredDocs(ld)[c].doc>>
                          ELSE StoredDocs(ld)[c].items

\* C13: a category in the legacy shape is read as a one-element list, an
\* upload to it stores the legacy document followed by the new one, a
\* delete by id filters it as a one-element list, and a write leaves the
\* category it touched as a list or absent.
C13_LegacyAsList ==
    [][\A h \in DOMAIN reg :
          LET category == reg[h].category
              old      == legal[reg[h].startupId]
              docs     == StoredDocs(legal'[reg[h].startupId])
          IN /\ ReadGivesLists(h)'
             /\ (UploadDone(h) \/ DeleteDone(h)) =>
                   (category \in DOMAIN docs => docs[category].array)
             /\ (UploadDone(h) /\ IsLegacy(old, category)) =>
                   /\ category \in DOMAIN docs
                   /\ Len(docs[category].items) = 2
                   /\ docs[category].items[1] = StoredDocs(old)[category].doc
                   /\ docs[category].items[2].id = resp'[h].document.id
             /\ (DeleteDone(h) /\ IsLegacy(old, category)
                   /\ "documentId" \in DOMAIN reg[h]) =>
                   IF StoredDocs(old)[category].doc.id = reg[h].documentId
                   THEN category \notin DOMAIN docs
                   ELSE /\ category \in DOMAIN docs
                        /\ docs[category].items = <<StoredDocs(old)[category].doc>>]_vars

\* both categories held the legacy document d2; an upload added d1 to c2,
\* and a read of all categories answered one-element list for the legacy
\* c1 and the two documents for c2
C13_Witness ==
    \E h \in DOMAIN reg :
        /\ resp[h].status = 200
        /\ "documents" \in DOMAIN resp[h]
        /\ "category" \notin DOMAIN resp[h].query
        /\ IsLegacy(legal["s1"], "c1")
        /\ resp[h].documents["c1"] = <<Doc("d2")>>
        /\ "c2" \in DOMAIN resp[h].documents
        /\ Len(resp[h].documents["c2"]) = 2
        /\ resp[h].documents["c2"][1] = Doc("d2")
        /\ resp[h].documents["c2"][2].id = "d1"

(***************************************************************************)
(* SpecUpload: uploads of every kind of file, those that fail and those    *)
(* that succeed, one at a time.                                            *)
(***************************************************************************)
PdfFiles ==
    { File("f.pdf", "application/pdf", <<"a">>, TRUE),
      File("f.pdf", "application/pdf", <<>>, TRUE) }     \* a scan: no text

UploadForms ==
    { Merge([startupId |-> s, category |-> c], f) :
        s \in {"", "s1", "s2"}, c \in {""} \cup Categories,
        f \in {Empty} \cup {[file |-> x] : x \in Files \cup PdfFiles} }

InitUpload ==
    /\ startups = {}
    /\ nextGen = 0
    /\ pc = [r \in {1} |-> "idle"]
    /\ status = [r \in {1} |-> 0]
    /\ bulkSince = FALSE
    /\ call = NoCall
    /\ shortlist = {}
    /\ list = NoList
    /\ ScrollIdle
    /\ IssuesIdle
    /\ MapperIdle
    /\ legal \in [{"s1"} -> {NullLD, [uploadedDocuments |-> [c \in {"c1"} |-> Arr(<<Doc("d1")>>)],
                                      analysisResults |-> [c \in {"c1"} |-> 1]]}]
    /\ reg = [h \in {1} |-> [pc |-> "idle"]]
    /\ resp = [h \in {1} |-> [status |-> 0]]

NextUpload ==
    \/ \E h \in DOMAIN reg, form \in UploadForms : HasRoom(form) /\ UploadRead(h, form)
    \/ \E h \in DOMAIN reg, id \in DocIds : UploadWrite(h, id)

SpecUpload == InitUpload /\ [][NextUpload]_vars

PdfType == "application/pdf"

UnsupportedMessages ==
    { "Please convert Word documents to PDF for text extraction",
      "Unsupported file type. Please upload PDF or TXT files." }

\* request h is answered with the failure status and nothing is stored
Fails(h, code) == resp'[h].status = code /\ legal' = legal

\* C14: an upload that fails leaves every stored record unchanged; missing
\* startupId, category or file is answered 400, an unknown startup 404, a
\* declared type other than PDF or plain text 400 with a message naming the
\* limitation, an empty extracted text 400 with another message, and a PDF
\* that does not parse 500.
C14_FailedUploads ==
    [][\A h \in DOMAIN reg :
          /\ \A form \in UploadForms :
                UploadRead(h, form) =>
                    /\ (form.startupId = "" \/ form.category = ""
                           \/ "file" \notin DOMAIN form) => Fails(h, 400)
                    /\ (form.startupId # "" /\ form.category # ""
                           /\ "file" \in DOMAIN form
                           /\ form.startupId \notin DOMAIN legal) => Fails(h, 404)
          /\ (reg[h].pc = "read" /\ reg[h].op = "upload") =>
                LET file == reg[h].file IN
                /\ file.type \notin {PdfType, "text/plain"} =>
                      Fails(h, 400) /\ resp'[h].error \in UnsupportedMessages
                /\ (file.type = PdfType /\ ~file.parses) => Fails(h, 500)
                /\ (file.type \in {PdfType, "text/plain"} /\ file.parses
                       /\ file.content = <<>>) =>
                      Fails(h, 400) /\ resp'[h].error \notin UnsupportedMessages
          /\ (resp'[h] # resp[h] /\ resp'[h].status \notin {0, 200}) => legal' = legal]_vars

\* an upload to a startup that has documents was refused for its empty text
C14_Witness ==
    /\ resp[1] = Failure(400, "Could not extract text from the document")
    /\ legal["s1"] # NullLD
    /\ reg[1].pc = "idle"

(***************************************************************************)
(* Threshold issues: POST /api/threshold-issues.  The handler awaits the   *)
(* session and the body (AuthIssue), then validates, creates and answers   *)
(* (CreateIssue).  A body is a function from the keys it carries to        *)
(* strings; a stored record holds the data passed to create (the columns   *)
(* the engine fills in are left out).                                      *)
(***************************************************************************)
MaxIssues == 2      \* records the table may hold

NoSession == [null |-> TRUE]

Sessions == {NoSession, [user |-> "u1"]}

validRiskRatings == {"High", "Medium", "Low"}

validStatuses == {"Open", "In Progress", "Resolved", "Accepted Risk"}

\* !x for a body property: undefined or the empty string
Falsy(body, k) == k \notin DOMAIN body \/ body[k] = ""

\* x || fallback
OrElse(body, k, fallback) == IF Falsy(body, k) THEN fallback ELSE body[k]

IssueFailureUnauthorized(code, message) == [status |-> 401, error |-> message]

IssueFailure(code, message) == [status |-> code, error |-> message]

IssueDataNoSourceDefault(body) ==
    [startupId |-> body.startupId, category |-> body.category, issue |-> body.issue,
     riskRating |-> body.riskRating, mitigation |-> body.mitigation,
     status |-> OrElse(body, "status", "Open"),
     source |-> IF "source" \in DOMAIN body THEN body.source ELSE "",
     identifiedDate |-> OrElse(body, "identifiedDate", today)]

\* the data passed to prisma.thresholdIssue.create
IssueData(body) ==
    [startupId |-> body.startupId, category |-> body.category, issue |-> body.issue,
     riskRating |-> body.riskRating, mitigation |-> body.mitigation,
     status |-> OrElse(body, "status", "Open"),
     source |-> OrElse(body, "source", "Manual"),
     identifiedDate |-> OrElse(body, "identifiedDate", today)]

IsValidRiskRatingAny(riskRating) == TRUE

IsValidRiskRating(riskRating) == riskRating \in validRiskRatings

\* POST up to the awaited session and body
AuthIssue(session, body) ==
    /\ issueReq.pc = "idle"
    /\ Len(issues) < MaxIssues
    /\ issueReq' = [pc |-> "auth", session |-> session, body |-> body]
    /\ issueResp' = [status |-> 0]
    /\ UNCHANGED <<issues, today, mapperVars, scrollVars, storeVars, listVars, docVars>>

\* POST from the session check to the response
CreateIssue ==
    LET session == issueReq.session
        body    == issueReq.body
    IN /\ issueReq.pc = "auth"
       /\ issueReq' = [pc |-> "idle"]
       /\ IF session = NoSession
          THEN /\ issueResp' = IssueFailure(401, "Unauthorized")
               /\ UNCHANGED issues
          ELSE IF \E k \in {"startupId", "category", "issue", "riskRating", "mitigation"} :
                     Falsy(body, k)
          THEN /\ issueResp' = IssueFailure(400, "Missing required fields")
               /\ UNCHANGED issues
          ELSE IF ~IsValidRiskRating(body.riskRating)
          THEN /\ issueResp' = IssueFailure(400,
                                   "Invalid riskRating. Must be one of: High, Medium, Low")
               /\ UNCHANGED issues
          ELSE IF ~Falsy(body, "status") /\ body.status \notin validStatuses
          THEN /\ issueResp' = IssueFailure(400,
                     "Invalid status. Must be one of: Open, In Progress, Resolved, Accepted Risk")
               /\ UNCHANGED issues
          ELSE /\ issues' = Append(issues, IssueData(body))
               /\ issueResp' = [status |-> 201, thresholdIssue |-> IssueData(body)]
       /\ UNCHANGED <<today, mapperVars, scrollVars, storeVars, listVars, docVars>>

(***************************************************************************)
(* SpecIssues: create requests, one at a time, with and without a session. *)
(***************************************************************************)
RequiredParts ==
    { [startupId |-> "s1", category |-> "c1", issue |-> "i", mitigation |-> "m"],
      [category |-> "c1", issue |-> "i", mitigation |-> "m"],
      [startupId |-> "s1", category |-> "c1", issue |-> "i", mitigation |-> ""] }

IssueBodies ==
    { Merge(Merge(Merge(Merge(a, b), c), d), e) :
        a \in RequiredParts,
        b \in Opt("riskRating", {"High", "Low", "Critical"}),
        c \in Opt("status", {"", "Resolved", "Closed"}),
        d \in Opt("source", {"AI"}),
        e \in Opt("identifiedDate", {"2025-12-31"}) }

InitIssues ==
    /\ startups = {}
    /\ nextGen = 0
    /\ pc = [r \in {1} |-> "idle"]
    /\ status = [r \in {1} |-> 0]
    /\ bulkSince = FALSE
    /\ call = NoCall
    /\ shortlist = {}
    /\ list = NoList
    /\ ScrollIdle
    /\ IssuesIdle
    /\ MapperIdle
    /\ DocsIdle

NextIssues ==
    \/ \E session \in Sessions, body \in IssueBodies : AuthIssue(session, body)
    \/ CreateIssue

SpecIssues == InitIssues /\ [][NextIssues]_vars

(***************************************************************************)
(* Claims about threshold issues                                           *)
(***************************************************************************)
\* the request in progress is handled in this step
Handled == issueReq.pc = "auth"

Supplied(body, k) == k \in DOMAIN body /\ body[k] # ""

BadRiskRating(body) ==
    ~Supplied(body, "riskRating") \/ body.riskRating \notin {"High", "Medium", "Low"}

BadStatus(body) ==
    /\ Supplied(body, "status")
    /\ body.status \notin {"Open", "In Progress", "Resolved", "Accepted Risk"}

Rejected(code) == issueResp'.status = code /\ issues' = issues

\* C15: an authenticated create whose riskRating is not High, Medium or Low,
\* or whose supplied status is not Open, In Progress, Resolved or Accepted
\* Risk, is answered 400 and stores nothing; every stored issue has its
\* riskRating and status inside these enumerations.
C15_ClosedEnumerations ==
    [][/\ (Handled /\ issueReq.session # NoSession
             /\ (BadRiskRating(issueReq.body) \/ BadStatus(issueReq.body))) =>
                 Rejected(400)
       /\ \A i \in DOMAIN issues' :
             /\ issues'[i].riskRating \in {"High", "Medium", "Low"}
             /\ issues'[i].status \in {"Open", "In Progress", "Resolved", "Accepted Risk"}]_vars

\* after one issue was stored, a request was refused for its riskRating
C15_Witness ==
    /\ issueResp = [status |-> 400,
                    error |-> "Invalid riskRating. Must be one of: High, Medium, Low"]
    /\ Len(issues) = 1

\* C16: a created record has status Open, source Manual and identifiedDate
\* today where the body leaves them out, and the body's value where it
\* supplies one.
C16_Defaults ==
    [][(Handled /\ issueResp'.status = 201) =>
          LET body   == issueReq.body
              stored == issues'[Len(issues')]
          IN /\ Len(issues') = Len(issues) + 1
             /\ issueResp'.thresholdIssue = stored
             /\ stored.status = IF Supplied(body, "status") THEN body.status ELSE "Open"
             /\ stored.source = IF Supplied(body, "source") THEN body.source ELSE "Manual"
             /\ stored.identifiedDate =
                   IF Supplied(body, "identifiedDate") THEN body.identifiedDate
                   ELSE today]_vars

\* a record created from a body with none of the three: all three defaults
C16_Witness ==
    /\ issueResp.status = 201
    /\ Len(issues) = 2
    /\ issues[2] = issueResp.thresholdIssue
    /\ issues[2].status = "Open"
    /\ issues[2].source = "Manual"
    /\ issues[2].identifiedDate = today
    /\ issues[1].source = "AI"
    /\ issues[1].status = "Resolved"

\* C17: a create without a session is answered 401 and stores nothing,
\* whatever the body; with a session, a body that lacks startupId,
\* category, issue, riskRating or mitigation is answered 400 and stores
\* nothing.
C17_AuthThenRequired ==
    [][Handled =>
          /\ issueReq.session = NoSession => Rejected(401)
          /\ (issueReq.session # NoSession
                /\ \E k \in {"startupId", "category", "issue", "riskRating", "mitigation"} :
                      k \notin DOMAIN issueReq.body) => Rejected(400)]_vars

\* with one issue stored, a request without a session was refused
C17_Witness ==
    /\ issueResp = [status |-> 401, error |-> "Unauthorized"]
    /\ Len(issues) = 1

(***************************************************************************)
(* ColumnMapper.  mapping is a function from the canonical fields that are *)
(* assigned to CSV headers (an undefined field is absent); a suggestion    *)
(* is [csvHeader, suggestedCategory, suggestedField]; an editable entry    *)
(* is [csvHeader, category, field, skip].  The state updates of one event  *)
(* handler, or of the continuation of analyzeWithAI after the response,    *)
(* are applied together: one action.                                       *)
(***************************************************************************)
MaxSuggestions == 2     \* suggestions in one analysis response

headers == <<"Company", "Company Website", "Site">>      \* preview.headers

fieldMap ==
    [core |-> [name |-> "name", description |-> "description", sector |-> "sector",
               country |-> "country"],
     companyInfo |-> [website |-> "website", linkedin |-> "linkedinUrl",
                      location |-> "location", headquarters |-> "headquarters",
                      founded |-> "foundingYear", founders |-> "founders",
                      employeeCount |-> "employeeCount",
                      fundingRaised |-> "fundingRaised"],
     teamInfo |-> [foundersEducation |-> "foundersEducation",
                   foundersPriorExperience |-> "foundersPriorExperience",
                   keyTeamMembers |-> "keyTeamMembers", teamDepth |-> "teamDepth"],
     marketInfo |-> [industry |-> "industry", subIndustry |-> "subIndustry",
                     marketSize |-> "marketSize", b2bOrB2c |-> "b2bOrB2c"],
     salesInfo |-> [salesMotion |-> "salesMotion", gtmStrategy |-> "gtmStrategy"],
     productInfo |-> [problemSolved |-> "problemSolved", moat |-> "moat"],
     businessModel |-> [revenueModel |-> "revenueModel"],
     competitiveInfo |-> [competitors |-> "competitors"],
     aiScores |-> [score |-> "score"]]

\* fieldMap[`${suggestedCategory}.${suggestedField}`] is defined
InFieldMap(suggestion) ==
    /\ suggestion.suggestedCategory \in DOMAIN fieldMap
    /\ suggestion.suggestedField \in DOMAIN fieldMap[suggestion.suggestedCategory]

FieldOf(suggestion) == fieldMap[suggestion.suggestedCategory][suggestion.suggestedField]

RECURSIVE ApplySuggestions(_, _, _)
\* data.mappings.forEach from suggestion i on
ApplySuggestions(newMapping, mappings, i) ==
    IF i > Len(mappings) THEN newMapping
    ELSE ApplySuggestions(
             IF InFieldMap(mappings[i])
             THEN Merge(newMapping, [f \in {FieldOf(mappings[i])} |-> mappings[i].csvHeader])
             ELSE newMapping,
             mappings, i + 1)

MappingFromAIKeepsEdits(data) == ApplySuggestions(mapping, data.mappings, 1)

\* updateMappingFromAI: the value handed to setMapping
MappingFromAI(data) == ApplySuggestions(suggestedMapping, data.mappings, 1)

\* data.mappings.find((m) => m.csvHeader === header): its index, 0 if none
FindSuggestion(data, header) ==
    IF \E i \in DOMAIN data.mappings : data.mappings[i].csvHeader = header
    THEN CHOOSE i \in DOMAIN data.mappings :
            /\ data.mappings[i].csvHeader = header
            /\ \A j \in 1..(i - 1) : data.mappings[j].csvHeader # header
    ELSE 0

NewEditableMappingsKeepSkips(data) ==
    [h \in DOMAIN headers |->
        LET i == FindSuggestion(data, headers[h])
            skip == \E e \in DOMAIN editableMappings :
                        /\ editableMappings[e].csvHeader = headers[h]
                        /\ editableMappings[e].skip
        IN
        IF i > 0
        THEN [csvHeader |-> headers[h], category |-> data.mappings[i].suggestedCategory,
              field |-> data.mappings[i].suggestedField,
              isNewCategory |-> data.mappings[i].categoryType = "new",
              isNewField |-> FALSE, dataType |-> "text", skip |-> skip,
              llmSuggestion |-> data.mappings[i]]
        ELSE [csvHeader |-> headers[h], category |-> "unmapped", field |-> "",
              isNewCategory |-> FALSE, isNewField |-> FALSE, dataType |-> "text",
              skip |-> skip]]

newEditableMappings(data) ==
    [h \in DOMAIN headers |->
        LET i == FindSuggestion(data, headers[h]) IN
        IF i > 0
        THEN [csvHeader |-> headers[h], category |-> data.mappings[i].suggestedCategory,
              field |-> data.mappings[i].suggestedField,
              isNewCategory |-> data.mappings[i].categoryType = "new",
              isNewField |-> FALSE, dataType |-> "text", skip |-> FALSE,
              llmSuggestion |-> data.mappings[i]]
        ELSE [csvHeader |-> headers[h], category |-> "unmapped", field |-> "",
              isNewCategory |-> FALSE, isNewField |-> FALSE, dataType |-> "text",
              skip |-> FALSE]]

MaxAnalyses == 2     \* analyses in flight at one time

\* analyzeWithAI up to the fetch
analyzeWithAI ==
    /\ ~confirmed.called
    /\ pending < MaxAnalyses
    /\ isAnalyzing' = TRUE
    /\ aiError' = NoError
    /\ pending' = pending + 1
    /\ UNCHANGED <<suggestedMapping, mapping, editableMappings, aiSuggestions, confirmed>>
    /\ UNCHANGED <<issueVars, scrollVars, storeVars, listVars, docVars>>

\* analyzeWithAI after a response that is ok
AnalysisSucceeds(data) ==
    /\ pending > 0
    /\ pending' = pending - 1
    /\ aiSuggestions' = data
    /\ editableMappings' = newEditableMappings(data)
    /\ mapping' = MappingFromAI(data)
    /\ isAnalyzing' = FALSE
    /\ UNCHANGED <<suggestedMapping, aiError, confirmed>>
    /\ UNCHANGED <<issueVars, scrollVars, storeVars, listVars, docVars>>

AnalysisFailsClears ==
    /\ pending > 0
    /\ pending' = pending - 1
    /\ aiError' = [message |-> "Analysis failed"]
    /\ isAnalyzing' = FALSE
    /\ aiSuggestions' = NoSuggestions
    /\ editableMappings' = <<>>
    /\ UNCHANGED <<suggestedMapping, mapping, confirmed>>
    /\ UNCHANGED <<issueVars, scrollVars, storeVars, listVars, docVars>>

\* analyzeWithAI after a response that is not ok, or a failed fetch
AnalysisFails ==
    /\ pending > 0
    /\ pending' = pending - 1
    /\ aiError' = [message |-> "Analysis failed"]
    /\ isAnalyzing' = FALSE
    /\ UNCHANGED <<suggestedMapping, mapping, editableMappings, aiSuggestions, confirmed>>
    /\ UNCHANGED <<issueVars, scrollVars, storeVars, listVars, docVars>>

toggleSkip(csvHeader) ==
    /\ ~confirmed.called
    /\ \E i \in DOMAIN editableMappings : editableMappings[i].csvHeader = csvHeader
    /\ LET found == CHOOSE i \in DOMAIN editableMappings :
                       /\ editableMappings[i].csvHeader = csvHeader
                       /\ \A j \in 1..(i - 1) : editableMappings[j].csvHeader # csvHeader
           skip  == ~editableMappings[found].skip
       IN editableMappings' =
              [i \in DOMAIN editableMappings |->
                  IF editableMappings[i].csvHeader = csvHeader
                  THEN [editableMappings[i] EXCEPT !.skip = skip]
                  ELSE editableMappings[i]]
    /\ UNCHANGED <<suggestedMapping, mapping, aiSuggestions, aiError, isAnalyzing, pending,
                   confirmed>>
    /\ UNCHANGED <<issueVars, scrollVars, storeVars, listVars, docVars>>

updateMapping(field, value) ==
    /\ ~confirmed.called
    /\ mapping' = IF value = "none" THEN Without(mapping, field)
                  ELSE Merge(mapping, [f \in {field} |-> value])
    /\ UNCHANGED <<suggestedMapping, editableMappings, aiSuggestions, aiError, isAnalyzing,
                   pending, confirmed>>
    /\ UNCHANGED <<issueVars, scrollVars, storeVars, listVars, docVars>>

IsValidAnyField(m) == DOMAIN m # {}

\* isValid = mapping.name !== undefined
isValid(m) == "name" \in DOMAIN m

NotSkippedAll(mappings, editable) == mappings

\* aiSuggestions.mappings.filter(m => !editableMappings.find(em => ... && em.skip))
NotSkipped(mappings, editable) ==
    LET Kept(m) == ~\E i \in DOMAIN editable :
                       editable[i].csvHeader = m.csvHeader /\ editable[i].skip
    IN SelectSeq(mappings, Kept)

\* a click on the Confirm button, which is disabled unless isValid and not
\* analyzing
handleConfirm ==
    /\ ~confirmed.called
    /\ isValid(mapping) /\ ~isAnalyzing
    /\ confirmed' =
          Merge([called |-> TRUE, mapping |-> mapping],
                IF aiSuggestions = NoSuggestions THEN Empty
                ELSE [aiMappings |-> NotSkipped(aiSuggestions.mappings, editableMappings)])
    /\ UNCHANGED <<suggestedMapping, mapping, editableMappings, aiSuggestions, aiError,
                   isAnalyzing, pending>>
    /\ UNCHANGED <<issueVars, scrollVars, storeVars, listVars, docVars>>

(***************************************************************************)
(* SpecMapper: a mounted ColumnMapper until it confirms, its preview       *)
(* unchanged.                                                              *)
(***************************************************************************)
Suggestion(header, category, field) ==
    [csvHeader |-> header, suggestedCategory |-> category, suggestedField |-> field,
     categoryType |-> "existing"]

\* a suggestion that proposes a category of its own
NewSuggestion(header, category, field) ==
    [csvHeader |-> header, suggestedCategory |-> category, suggestedField |-> field,
     categoryType |-> "new"]

Candidates ==
    { Suggestion("Company", "core", "name"),
      Suggestion("Company Website", "companyInfo", "website"),
      Suggestion("Site", "companyInfo", "website"),
      NewSuggestion("Site", "metrics", "revenue") }

Responses == {[mappings |-> m] : m \in SeqsUpTo(Candidates, MaxSuggestions)}

Baselines ==
    { Empty, [name |-> "Company"], [website |-> "Site", sector |-> "Company"] }

ManualFields == {"name", "website"}

ManualValues == {"none", "Company", "Site"}

InitMapper ==
    /\ startups = {}
    /\ nextGen = 0
    /\ pc = [r \in {1} |-> "idle"]
    /\ status = [r \in {1} |-> 0]
    /\ bulkSince = FALSE
    /\ call = NoCall
    /\ shortlist = {}
    /\ list = NoList
    /\ ScrollIdle
    /\ IssuesIdle
    /\ DocsIdle
    /\ suggestedMapping \in Baselines
    /\ mapping = suggestedMapping
    /\ editableMappings = <<>>
    /\ aiSuggestions = NoSuggestions
    /\ aiError = NoError
    /\ isAnalyzing = FALSE
    /\ pending = 0
    /\ confirmed = NotConfirmed

\* an analysis starts when none is in flight: on mount, or from the
\* guidance panel, which is opened while not analyzing
NextMapper ==
    \/ ~isAnalyzing /\ analyzeWithAI
    \/ \E data \in Responses : AnalysisSucceeds(data)
    \/ AnalysisFails
    \/ \E h \in DOMAIN headers : toggleSkip(headers[h])
    \/ \E field \in ManualFields, value \in ManualValues : updateMapping(field, value)
    \/ handleConfirm

SpecMapper == InitMapper /\ [][NextMapper]_vars

(***************************************************************************)
(* Claims about the ColumnMapper                                           *)
(***************************************************************************)
\* an analysis completes successfully in this step
AnalysisDone == isAnalyzing /\ ~isAnalyzing' /\ aiError' = NoError

CanonicalFields ==
    UNION {{fieldMap[c][f] : f \in DOMAIN fieldMap[c]} : c \in DOMAIN fieldMap}

\* the suggestions of the response that target canonical field f
Targeting(mappings, f) ==
    {i \in DOMAIN mappings : InFieldMap(mappings[i]) /\ FieldOf(mappings[i]) = f}

Last(S) == CHOOSE i \in S : \A j \in S : j <= i

\* C18: after a successful analysis every canonical field targeted by a
\* suggestion in the translation table holds the header of the last such
\* suggestion, and every other field has its baseline value or none.
C18_MappingFromSuggestions ==
    [][AnalysisDone =>
          \A f \in CanonicalFields \cup DOMAIN suggestedMapping \cup DOMAIN mapping' :
              LET hits == Targeting(aiSuggestions'.mappings, f) IN
              IF hits # {}
              THEN /\ f \in DOMAIN mapping'
                   /\ mapping'[f] = aiSuggestions'.mappings[Last(hits)].csvHeader
              ELSE IF f \in DOMAIN suggestedMapping
                   THEN f \in DOMAIN mapping' /\ mapping'[f] = suggestedMapping[f]
                   ELSE f \notin DOMAIN mapping']_vars

\* the analysis suggested companyInfo.website for "Company Website" and a
\* field outside the table: website is that header, name is the baseline's
C18_Witness ==
    /\ suggestedMapping = [name |-> "Company"]
    /\ aiSuggestions # NoSuggestions
    /\ aiSuggestions.mappings =
          <<Suggestion("Company Website", "companyInfo", "website"),
            NewSuggestion("Site", "metrics", "revenue")>>
    /\ ~isAnalyzing /\ aiError = NoError
    /\ mapping = [name |-> "Company", website |-> "Company Website"]

\* C19: onConfirm is never called with a mapping whose name field is
\* unassigned.
C19_ConfirmNeedsName ==
    confirmed.called => "name" \in DOMAIN confirmed.mapping

\* confirmed after the name, absent from the baseline and from the
\* analysis, was assigned by hand, with another field mapped and a header
\* skipped
C19_Witness ==
    /\ confirmed.called
    /\ suggestedMapping = Empty
    /\ aiSuggestions # NoSuggestions
    /\ \A i \in DOMAIN aiSuggestions.mappings :
          ~(InFieldMap(aiSuggestions.mappings[i])
              /\ FieldOf(aiSuggestions.mappings[i]) = "name")
    /\ confirmed.mapping = [name |-> "Site", website |-> "Company Website"]
    /\ \E i \in DOMAIN editableMappings : editableMappings[i].skip

\* the header has an editable entry marked skipped
Skipped(header) ==
    \E i \in DOMAIN editableMappings :
        editableMappings[i].csvHeader = header /\ editableMappings[i].skip

\* C20: onConfirm receives the current mapping and, in response order, the
\* suggestions of the latest successful analysis whose header is not
\* marked skipped at that moment.
C20_ConfirmEmits ==
    [][(~confirmed.called /\ confirmed'.called) =>
          /\ confirmed'.mapping = mapping
          /\ IF aiSuggestions = NoSuggestions
             THEN "aiMappings" \notin DOMAIN confirmed'
             ELSE /\ "aiMappings" \in DOMAIN confirmed'
                  /\ LET all  == aiSuggestions.mappings
                         sent == confirmed'.aiMappings
                         kept == {i \in DOMAIN all : ~Skipped(all[i].csvHeader)}
                     IN /\ Len(sent) = Cardinality(kept)
                        /\ \A n \in DOMAIN sent :
                              \E i \in kept :
                                 /\ sent[n] = all[i]
                                 /\ Cardinality({j \in kept : j <= i}) = n]_vars

\* of two suggestions, the one whose header is skipped was left out; the
\* header of the other had been skipped and included again
C20_Witness ==
    /\ confirmed.called
    /\ "aiMappings" \in DOMAIN confirmed
    /\ aiSuggestions.mappings =
          <<Suggestion("Company", "core", "name"),
            NewSuggestion("Site", "metrics", "revenue")>>
    /\ confirmed.aiMappings = <<Suggestion("Company", "core", "name")>>
    /\ Skipped("Site") /\ ~Skipped("Company")

\* an analysis fails in this step
AnalysisFailed == isAnalyzing /\ ~isAnalyzing' /\ aiError' # NoError

\* C21: a failed analysis leaves the suggestions, the editable entries and
\* the mapping as they were, records an error and clears the analyzing
\* flag; after it a new analysis can be started and a canonical field can
\* be assigned by hand.
C21_FailureKeepsState ==
    /\ [][AnalysisFailed =>
             /\ aiSuggestions' = aiSuggestions
             /\ editableMappings' = editableMappings
             /\ mapping' = mapping]_vars
    /\ []((aiError # NoError /\ ~confirmed.called) =>
             /\ ~isAnalyzing
             /\ ENABLED analyzeWithAI
             /\ ENABLED updateMapping("name", "Company"))

\* an analysis failed after an earlier one had succeeded and a header had
\* been skipped: the suggestions and the skip are still there
C21_Witness ==
    /\ aiError # NoError
    /\ ~isAnalyzing
    /\ aiSuggestions # NoSuggestions
    /\ Len(aiSuggestions.mappings) = 2
    /\ \E i \in DOMAIN editableMappings : editableMappings[i].skip
    /\ ~confirmed.called

-----------------------------------------------------------------------------
\* Scroll position persistence: saveScrollPosition, getScrollPosition and
\* restoreScrollPosition over sessionStorage.

SCROLL_EXPIRY_MS == 30 * 60 * 1000

\* JSON.stringify({ y: window.scrollY, timestamp: Date.now() })
ScrollEntry(y, timestamp) == [y |-> y, timestamp |-> timestamp]

\* a stored string JSON.parse throws on
Unparseable == [unparseable |-> TRUE]

setItem(store, key, value) ==
    [k \in DOMAIN store \cup {key} |-> IF k = key THEN value ELSE store[k]]

removeItem(store, key) == [k \in DOMAIN store \ {key} |-> store[k]]

\* getScrollPosition returned null
NoPosition == [read |-> TRUE, found |-> FALSE]

Position(y) == [read |-> TRUE, found |-> TRUE, y |-> y]

ExpiredAfterAnHour(age) == age > 2 * SCROLL_EXPIRY_MS

\* the expiry test of getScrollPosition
Expired(age) == age > SCROLL_EXPIRY_MS

\* what getScrollPosition(key) returns at time t
PositionOf(store, key, t) ==
    IF key \notin DOMAIN store THEN NoPosition
    ELSE IF store[key] = Unparseable THEN NoPosition
    ELSE IF Expired(t - store[key].timestamp) THEN NoPosition
    ELSE Position(store[key].y)

\* what getScrollPosition(key) leaves in sessionStorage at time t
StoreAfterGet(store, key, t) ==
    IF key \notin DOMAIN store THEN store
    ELSE IF store[key] = Unparseable THEN removeItem(store, key)
    ELSE IF Expired(t - store[key].timestamp) THEN removeItem(store, key)
    ELSE store

saveScrollPosition(key) ==
    /\ sessionStorage' = setItem(sessionStorage, key, ScrollEntry(scrollY, now))
    /\ UNCHANGED <<now, got, scrollY>>
    /\ UNCHANGED <<issueVars, mapperVars, storeVars, listVars, docVars>>

getScrollPosition(key) ==
    /\ got' = [got EXCEPT ![key] = PositionOf(sessionStorage, key, now)]
    /\ sessionStorage' = StoreAfterGet(sessionStorage, key, now)
    /\ UNCHANGED <<now, scrollY>>
    /\ UNCHANGED <<issueVars, mapperVars, storeVars, listVars, docVars>>

\* the scroll of the animation frame is taken in the same step
restoreScrollPosition(key) ==
    LET y == PositionOf(sessionStorage, key, now)
        store == StoreAfterGet(sessionStorage, key, now)
    IN  /\ got' = [got EXCEPT ![key] = y]
        /\ IF y = NoPosition
           THEN /\ sessionStorage' = store
                /\ UNCHANGED scrollY
           ELSE /\ scrollY' = y.y
                /\ sessionStorage' = removeItem(store, key)
        /\ UNCHANGED now
        /\ UNCHANGED <<issueVars, mapperVars, storeVars, listVars, docVars>>

\* the user scrolls the window
Scroll(y) ==
    /\ y # scrollY
    /\ scrollY' = y
    /\ UNCHANGED <<sessionStorage, now, got>>
    /\ UNCHANGED <<issueVars, mapperVars, storeVars, listVars, docVars>>

\* time passes
Tick(t) ==
    /\ t > now
    /\ now' = t
    /\ UNCHANGED <<sessionStorage, got, scrollY>>
    /\ UNCHANGED <<issueVars, mapperVars, storeVars, listVars, docVars>>

\* the instants the clock is read at: around the start and around the expiry
Times ==
    {0, 1, 2, SCROLL_EXPIRY_MS, SCROLL_EXPIRY_MS + 1, SCROLL_EXPIRY_MS + 2}

ScrollOffsets == {0, 120}

\* the session starts with nothing stored, or with a string that is no JSON
\* under one of the keys
InitScroll ==
    /\ startups = {}
    /\ nextGen = 0
    /\ pc = [r \in {1} |-> "idle"]
    /\ status = [r \in {1} |-> 0]
    /\ bulkSince = FALSE
    /\ call = NoCall
    /\ shortlist = {}
    /\ list = NoList
    /\ DocsIdle
    /\ IssuesIdle
    /\ MapperIdle
    /\ sessionStorage \in {<<>>, [k \in {"portfolio"} |-> Unparseable]}
    /\ now = 0
    /\ got = [key \in ScrollKeys |-> NotRead]
    /\ scrollY = 0

NextScroll ==
    \/ \E key \in ScrollKeys : saveScrollPosition(key)
    \/ \E key \in ScrollKeys : getScrollPosition(key)
    \/ \E key \in ScrollKeys : restoreScrollPosition(key)
    \/ \E y \in ScrollOffsets : Scroll(y)
    \/ \E t \in Times : Tick(t)

SpecScroll == InitScroll /\ [][NextScroll]_vars

\* the entry stored under key is one saveScrollPosition wrote
Saved(key) ==
    /\ key \in DOMAIN sessionStorage
    /\ sessionStorage[key] # Unparseable

\* the time since the entry under key was saved
Age(key) == now - sessionStorage[key].timestamp

\* C22: a read of a saved position older than 30 minutes returns null and
\* removes the entry; a read of one saved less than 30 minutes ago returns
\* its y and leaves sessionStorage as it was.
C22_ScrollExpiry ==
    [][\A key \in ScrollKeys :
          (getScrollPosition(key) /\ Saved(key)) =>
              /\ Age(key) > 30 * 60 * 1000 =>
                     /\ got'[key] = NoPosition
                     /\ key \notin DOMAIN sessionStorage'
              /\ Age(key) < 30 * 60 * 1000 =>
                     /\ got'[key] = Position(sessionStorage[key].y)
                     /\ sessionStorage' = sessionStorage]_vars

\* half an hour and a millisecond after the start: the dashboard position,
\* saved a millisecond under half an hour ago, was read and is still stored;
\* the portfolio position, saved at the start, was read as absent and is
\* gone
C22_Witness ==
    /\ now = SCROLL_EXPIRY_MS + 1
    /\ "dashboard" \in DOMAIN sessionStorage
    /\ sessionStorage["dashboard"] = ScrollEntry(120, 2)
    /\ got["dashboard"] = Position(120)
    /\ got["portfolio"] = NoPosition
    /\ "portfolio" \notin DOMAIN sessionStorage

-----------------------------------------------------------------------------
\* the shortlist entry of a user for a startup
ShortlistEntry(userId, startupId) == [userId |-> userId, startupId |-> startupId]

\* C23: every record of a list response has a boolean shortlisted; for a
\* caller with an identity it is true exactly for the records in that
\* caller's shortlist, and without an identity it is false on every record.
C23_ShortlistedFlag ==
    list.called =>
        \A i \in DOMAIN list.startups :
            LET record == list.startups[i] IN
            /\ "shortlisted" \in DOMAIN record
            /\ record.shortlisted \in BOOLEAN
            /\ list.userId # NoUser =>
                   (record.shortlisted <=>
                        ShortlistEntry(list.userId, record.id) \in shortlist)
            /\ list.userId = NoUser => ~record.shortlisted

\* user u1 listed a page with a startup of their shortlist, flagged, and a
\* startup of another user's shortlist, not flagged
C23_Witness ==
    /\ list.called
    /\ list.userId = "u1"
    /\ ShortlistEntry("u2", <<"client", 2>>) \in shortlist
    /\ \E i, j \in DOMAIN list.startups :
          /\ list.startups[i].id = <<"client", 1>>
          /\ list.startups[i].shortlisted
          /\ list.startups[j].id = <<"client", 2>>
          /\ ~list.startups[j].shortlisted

-----------------------------------------------------------------------------
\* the first suggestion of the response for a header, 0 if there is none
Matching(mappings, header) ==
    IF \E i \in DOMAIN mappings : mappings[i].csvHeader = header
    THEN CHOOSE i \in DOMAIN mappings :
            /\ mappings[i].csvHeader = header
            /\ \A j \in DOMAIN mappings : mappings[j].csvHeader = header => i <= j
    ELSE 0

\* C24: after a successful analysis the editable entries are one per header
\* in header order, none skipped; the entry of a header with a suggestion
\* in the response has the category and field of that suggestion (the
\* first for the header) and isNewCategory exactly when its categoryType is
\* "new"; the entry of a header without one is "unmapped" with an empty
\* field. Nothing of the entries before the response remains.
C24_EditableFromResponse ==
    [][AnalysisDone =>
          /\ Len(editableMappings') = Len(headers)
          /\ \A h \in DOMAIN headers :
                LET entry == editableMappings'[h]
                    m == Matching(aiSuggestions'.mappings, headers[h])
                IN /\ entry.csvHeader = headers[h]
                   /\ entry.skip = FALSE
                   /\ IF m > 0
                      THEN /\ entry.category = aiSuggestions'.mappings[m].suggestedCategory
                           /\ entry.field = aiSuggestions'.mappings[m].suggestedField
                           /\ entry.isNewCategory <=>
                                  aiSuggestions'.mappings[m].categoryType = "new"
                      ELSE /\ entry.category = "unmapped"
                           /\ entry.field = ""]_vars

\* some header is skipped
SomeSkipped == \E i \in DOMAIN editableMappings : editableMappings[i].skip

\* the response suggested a new category for "Site" and an existing one for
\* "Company": the three entries are in header order, "Site" with a new
\* category, "Company Website" unmapped
C24_Witness ==
    /\ ~isAnalyzing /\ aiError = NoError
    /\ aiSuggestions # NoSuggestions
    /\ aiSuggestions.mappings =
          <<NewSuggestion("Site", "metrics", "revenue"),
            Suggestion("Company", "core", "name")>>
    /\ Len(editableMappings) = 3
    /\ editableMappings[1].category = "core" /\ ~editableMappings[1].isNewCategory
    /\ editableMappings[2].category = "unmapped" /\ editableMappings[2].field = ""
    /\ editableMappings[3].category = "metrics" /\ editableMappings[3].isNewCategory
    /\ ~SomeSkipped

-----------------------------------------------------------------------------
(***************************************************************************)
(* SpecRace: two requests, an upload or a delete each, in flight at the    *)
(* same time on the registry of startup "s1".  A request reads the record  *)
(* in one step and writes it back in a later one; the other request may    *)
(* take its steps in between.                                              *)
(***************************************************************************)
Handlers == {1, 2}

\* the id each request's upload gives its document: the clock and the
\* random suffix make them differ from each other and from the stored ones
UploadId(h) == IF h = 1 THEN "d2" ELSE "d3"

RaceRegistries ==
    { NullLD,
      [uploadedDocuments |-> [c \in {"c1"} |-> Arr(<<Doc("d1")>>)],
       analysisResults |-> [c \in {"c1"} |-> 1]] }

RaceForms ==
    { [startupId |-> "s1", category |-> c, file |-> f] :
        c \in Categories,
        f \in { File("f.txt", "text/plain", <<"a">>, TRUE),
                File("f.txt", "text/plain", <<>>, TRUE) } }

\* the one document deletes name
RaceTarget == [startupId |-> "s1", category |-> "c1", documentId |-> "d1"]

RaceDeletes == { RaceTarget, [startupId |-> "s2", category |-> "c1", documentId |-> "d1"] }

InitRace ==
    /\ startups = {}
    /\ nextGen = 0
    /\ pc = [r \in {1} |-> "idle"]
    /\ status = [r \in {1} |-> 0]
    /\ bulkSince = FALSE
    /\ call = NoCall
    /\ shortlist = {}
    /\ list = NoList
    /\ ScrollIdle
    /\ IssuesIdle
    /\ MapperIdle
    /\ legal \in [{"s1"} -> RaceRegistries]
    /\ reg = [h \in Handlers |-> [pc |-> "idle"]]
    /\ resp = [h \in Handlers |-> [status |-> 0]]

\* the request of handler h has not been received yet
NotStarted(h) == reg[h].pc = "idle" /\ resp[h].status = 0

NextRace ==
    \/ \E h \in Handlers, form \in RaceForms : NotStarted(h) /\ UploadRead(h, form)
    \/ \E h \in Handlers : UploadWrite(h, UploadId(h))
    \/ \E h \in Handlers, params \in RaceDeletes : NotStarted(h) /\ DeleteRead(h, params)
    \/ \E h \in Handlers : DeleteWrite(h)

SpecRace == InitRace /\ [][NextRace]_vars

\* every request has been answered
Completed == \A h \in Handlers : reg[h].pc = "idle" /\ resp[h].status # 0

\* the upload of handler h returned success
UploadAcked(h) == resp[h].status = 200 /\ "document" \in DOMAIN resp[h]

\* the delete of handler h returned success
DeleteAcked(h) == resp[h].status = 200 /\ "document" \notin DOMAIN resp[h]

\* the category's list of startup "s1" holds a document with this id
Present(category, id) ==
    \E i \in DOMAIN StoredList(legal["s1"], category) :
        StoredList(legal["s1"], category)[i].id = id

\* C25: once the concurrent requests have completed, every document whose
\* upload returned success is in its category's list (no delete names an
\* uploaded document), and the document whose delete returned success is
\* not.
C25_NoLostChange ==
    Completed =>
        \A h \in Handlers :
            /\ UploadAcked(h) => Present(resp[h].category, resp[h].document.id)
            /\ DeleteAcked(h) => ~Present(RaceTarget.category, RaceTarget.documentId)

-----------------------------------------------------------------------------
(***************************************************************************)
(* SpecOverlap: a mounted ColumnMapper whose effect runs analyzeWithAI     *)
(* again whenever the parent hands it new preview headers or sample rows,  *)
(* also while an earlier analysis is in flight; so does handleReanalyze    *)
(* from a guidance panel that was opened before that analysis began.       *)
(***************************************************************************)
OverlapResponses ==
    { [mappings |-> <<>>],
      [mappings |-> <<Suggestion("Company", "core", "name")>>] }

NextOverlap ==
    \/ analyzeWithAI
    \/ \E data \in OverlapResponses : AnalysisSucceeds(data)
    \/ AnalysisFails
    \/ \E h \in DOMAIN headers : toggleSkip(headers[h])
    \/ \E value \in {"none", "Company"} : updateMapping("name", value)
    \/ handleConfirm

SpecOverlap == InitMapper /\ [][NextOverlap]_vars

\* C26: onConfirm has been invoked only with no analysis in flight, so
\* that no response arrives after the confirmation.
C26_ConfirmWaitsForAnalyses == confirmed.called => pending = 0


=============================================================================
